---- MODULE Spec2Model ----
(***************************************************************************)
(* ForgeBoard authentication and session core: the credential store and   *)
(* its lockout state machine (database/models/user.py), the local auth    *)
(* provider (auth/providers/local.py), the session registry               *)
(* (auth/session_manager.py, database/models/session.py), the password    *)
(* reset tokens (database/models/password_reset.py) and the login route   *)
(* (main.py).                                                             *)
(*                                                                         *)
(* An optional column (NULL or a value) is a set with at most one         *)
(* element: {} is NULL, {v} is the value v.  Instants are whole seconds.  *)
(***************************************************************************)
EXTENDS Integers, Sequences, FiniteSets, TLC

VARIABLES
    now,              \* datetime.utcnow() / time.time(), in seconds
    ticks,            \* how often the clock has advanced
    users,            \* table users: id -> row
    password_resets,  \* table password_resets: sequence of rows
    sessions,         \* table sessions: sequence of rows, id = index
    api_keys,         \* table api_keys: sequence of rows, id = index
    issued,           \* the JWTs handed to clients so far
    nonce,            \* how many random values (secrets, uuid4) were drawn
    requests,         \* RateLimiter._requests: key -> deque of instants
    procs,            \* in-flight requests of the worker threads
    last,             \* the most recent call and what it returned
    hist              \* observations of past calls the claims speak about

vars == <<now, ticks, users, password_resets, sessions, api_keys, issued, nonce,
          requests, procs, last, hist>>

----------------------------------------------------------------------------
(* Bounds of the exploration *)

MaxTicks == 2
MaxResets == 1
MaxSessions == 2
MaxNonce == 4
MaxCalls == 5
MaxApiKeys == 2
MaxResetRows == 2
MaxKeyRows == 6
MaxUsers == 4

----------------------------------------------------------------------------
(* Configuration: main.py auth_config and the defaults of the providers *)

MaxLoginAttempts == 5
LockoutDuration == 300
PasswordResetExpiry == 3600
SessionTimeout == 86400
RefreshTimeout == 604800
MinLength == 8
SecondsPerMinute == 60
SecondsPerHour == 3600
SecondsPerDay == 86400
MaxPerUser == 5

UserIds == {1, 2}

\* Worker threads of the host server that handle requests concurrently.
ProcIds == {1, 2}

IdleProc == [pc |-> "idle", op |-> "none", id |-> {}, snap |-> {}, inp |-> {},
             ok |-> FALSE]

\* Passwords as the policy sees them: length and character classes.
Passwords ==
    { [id |-> "Abcd1234", len |-> 8, upper |-> TRUE,  lower |-> TRUE, digit |-> TRUE],
      [id |-> "Wxyz5678", len |-> 8, upper |-> TRUE,  lower |-> TRUE, digit |-> TRUE],
      [id |-> "abc",      len |-> 3, upper |-> FALSE, lower |-> TRUE, digit |-> FALSE] }

Pw(id) == CHOOSE p \in Passwords : p.id = id

\* What a login request may carry as password: nothing, or a password.
PasswordInputs == {{}} \cup {{p} : p \in Passwords}

\* generate_password_hash / check_password_hash: a salted one-way hash that
\* verifies exactly the password it was made from.
GeneratePasswordHash(p) == <<"pbkdf2", p.id>>

CheckPasswordHash(h, p) == h = GeneratePasswordHash(p)

\* str.lower() on the identifiers the requests use.
Lower(s) ==
    CASE s = "Alice@Example.com" -> "alice@example.com"
      [] s = "Carol@Example.com" -> "carol@example.com"
      [] OTHER -> s

Identifiers == {"alice", "Alice@Example.com", "bob@example.com", "nobody"}

HasAt(s) ==
    s \in {"alice@example.com", "Alice@Example.com", "bob@example.com",
           "carol@example.com", "Carol@Example.com", "dave@example.com"}

----------------------------------------------------------------------------
(* database/models/user.py *)

NewUser(username, email, provider, pw, active, admin) ==
    [ username |-> username,
      email |-> Lower(email),
      auth_provider |-> provider,
      password_hash |-> IF provider = "local" THEN {GeneratePasswordHash(pw)} ELSE {},
      is_active |-> active,
      is_admin |-> admin,
      password_change_required |-> FALSE,
      last_login_at |-> {},
      failed_login_count |-> 0,
      locked_until |-> {} ]

CheckPassword(u, pw) ==
    IF u.auth_provider # "local" \/ u.password_hash = {}
    THEN FALSE
    ELSE \E h \in u.password_hash : CheckPasswordHash(h, pw)

IsLockedWrongWay(u, t) ==
    IF u.locked_until = {} THEN FALSE ELSE \E lu \in u.locked_until : t > lu

IsLocked(u, t) ==
    IF u.locked_until = {} THEN FALSE ELSE \E lu \in u.locked_until : t < lu

\* lock_account(duration_minutes): timedelta(minutes=duration_minutes)
LockAccount(u, t, duration_minutes) ==
    [u EXCEPT !.locked_until = {t + duration_minutes * SecondsPerMinute}]

UnlockKeepsCount(u) == [u EXCEPT !.locked_until = {}]

UnlockAccount(u) == [u EXCEPT !.locked_until = {}, !.failed_login_count = 0]

IncrementNeverLocks(u, t, max_attempts, lockout_duration) ==
    [u EXCEPT !.failed_login_count = @ + 1]

IncrementLocksOnFirstFailure(u, t, max_attempts, lockout_duration) ==
    LockAccount([u EXCEPT !.failed_login_count = @ + 1], t, lockout_duration)

IncrementRestartsAfterExpiry(u, t, max_attempts, lockout_duration) ==
    LET u1 == [u EXCEPT !.failed_login_count =
                          IF u.locked_until # {} THEN 1 ELSE @ + 1,
                        !.locked_until = {}]
    IN  IF u1.failed_login_count >= max_attempts
        THEN LockAccount(u1, t, lockout_duration)
        ELSE u1

IncrementFailedLogin(u, t, max_attempts, lockout_duration) ==
    LET u1 == [u EXCEPT !.failed_login_count = @ + 1]
    IN  IF u1.failed_login_count >= max_attempts
        THEN LockAccount(u1, t, lockout_duration)
        ELSE u1

SuccessfulLogin(u, t) ==
    [u EXCEPT !.last_login_at = {t}, !.failed_login_count = 0, !.locked_until = {}]

\* set_password: raises ValueError (the row is left alone) for a non-local
\* user or a password shorter than 8 characters.
SetPasswordRaises(u, pw) == u.auth_provider # "local" \/ pw.len < MinLength

SetPasswordCompletesChange(u, pw) ==
    [u EXCEPT !.password_hash = {GeneratePasswordHash(pw)},
              !.password_change_required = FALSE]

SetPassword(u, pw) == [u EXCEPT !.password_hash = {GeneratePasswordHash(pw)}]

FindByEmail(email) == {id \in DOMAIN users : users[id].email = Lower(email)}

FindByUsername(username) == {id \in DOMAIN users : users[id].username = {username}}

\* create_local_user: a local row that must change its password.
CreateLocalUser(username, email, pw) ==
    [NewUser({username}, email, "local", pw, TRUE, FALSE)
        EXCEPT !.password_change_required = TRUE]

\* The unique constraints on users.email and users.username, checked by
\* the database at the INSERT.
UniqueViolation(rows, row) ==
    \E id \in DOMAIN rows :
        \/ rows[id].email = row.email
        \/ rows[id].username # {} /\ rows[id].username = row.username

----------------------------------------------------------------------------
(* database/models/password_reset.py *)

ResetIsValid(r, t) == ~(t > r.expires_at) /\ r.used_at = {}

InvalidateNone(rows, uid, t) == rows

\* invalidate_user_tokens: marks every unused token of the user as used.
InvalidateUserTokens(rows, uid, t) ==
    [i \in DOMAIN rows |->
        IF rows[i].user_id = uid /\ rows[i].used_at = {}
        THEN [rows[i] EXCEPT !.used_at = {t}]
        ELSE rows[i]]

\* The row create_reset_token inserts.
NewResetRow(uid, t, duration_hours, tok) ==
    [user_id |-> uid, token |-> tok,
     expires_at |-> t + duration_hours * SecondsPerHour,
     used_at |-> {}]

CreateResetToken(rows, uid, t, duration_hours, tok) ==
    Append(InvalidateUserTokens(rows, uid, t),
           NewResetRow(uid, t, duration_hours, tok))

FindValidToken(rows, tok, t) ==
    LET hit == {i \in DOMAIN rows : rows[i].token = tok}
    IN  IF hit = {} THEN {}
        ELSE LET i == CHOOSE j \in hit : \A k \in hit : j <= k
             IN  IF ResetIsValid(rows[i], t) THEN {i} ELSE {}

----------------------------------------------------------------------------
(* auth/providers/local.py *)

ValidatePassword(pw) ==
    pw.len >= MinLength /\ pw.upper /\ pw.lower /\ pw.digit

\* The user row authenticate looks up: by email when the identifier holds
\* an '@', by username otherwise.
LookupUser(ident) == IF HasAt(ident) THEN FindByEmail(ident) ELSE FindByUsername(ident)

\* The record of a call: what was called, on which user, with which class
\* of password or which token, and what came back.
NoCall ==
    [op |-> "none", uid |-> {}, pw |-> "-", ok |-> FALSE, err |-> "-",
     pre |-> {}, tok |-> {}, out |-> {}, sid |-> {}, imm |-> FALSE,
     streak |-> 0, locked_at |-> {}, status |-> 0, bucket |-> << >>,
     mail |-> "-", msg |-> "-", fault |-> "-", via |-> "-", auth |-> "-",
     who |-> {}, need |-> {}, req |-> {}]

\* How the supplied password relates to the stored one.
PwClass(uid, pwin) ==
    IF pwin = {} THEN "missing"
    ELSE IF uid = {} THEN "wrong"
    ELSE IF \E id \in uid, p \in pwin : CheckPassword(users[id], p)
         THEN "correct" ELSE "wrong"

Saturate(n) == IF n > MaxLoginAttempts + 1 THEN MaxLoginAttempts + 2 ELSE n

\* The user row after authenticate, and what authenticate returns.
AuthFailureTextPerBranch(branch) == branch

\* The error_message of the failure_result each branch of authenticate builds.
AuthFailureText(branch) ==
    CASE branch = "required" -> "Username/email and password are required"
      [] branch = "no_user" -> "Invalid username/email or password"
      [] branch = "locked" -> "Account is locked. Try again later."
      [] branch = "disabled" -> "Account is disabled"
      [] branch = "bad_password" -> "Invalid username/email or password"

AuthOutcome(u, pwin, t) ==
    IF pwin = {}
    THEN [err |-> "invalid_credentials", msg |-> AuthFailureText("required"),
          row |-> u, found |-> FALSE]
    ELSE IF u.auth_provider # "local"
    THEN [err |-> "invalid_credentials", msg |-> AuthFailureText("no_user"),
          row |-> u, found |-> TRUE]
    ELSE IF IsLocked(u, t)
    THEN [err |-> "account_locked", msg |-> AuthFailureText("locked"),
          row |-> u, found |-> TRUE]
    ELSE IF ~u.is_active
    THEN [err |-> "account_disabled", msg |-> AuthFailureText("disabled"),
          row |-> u, found |-> TRUE]
    ELSE IF \A p \in pwin : ~CheckPassword(u, p)
    THEN [err |-> "invalid_credentials", msg |-> AuthFailureText("bad_password"),
          row |-> IncrementFailedLogin(u, t, MaxLoginAttempts, LockoutDuration),
          found |-> TRUE]
    ELSE [err |-> "", msg |-> "", row |-> SuccessfulLogin(u, t), found |-> TRUE]

\* Observations: per user, the number of consecutive wrong-password calls
\* since the account was last clean, how many of them completed the failed
\* password check, and the instant the account was last locked.
HistAfterAuth(id, cls, out) ==
    [hist EXCEPT
       !.failed[id] =
           IF out.err = "" THEN 0
           ELSE IF out.err = "invalid_credentials" /\ users[id].auth_provider = "local"
                THEN Saturate(@ + 1)
                ELSE @,
       !.streak[id] =
           IF out.err = "" THEN 0
           ELSE IF cls = "wrong" /\ users[id].auth_provider = "local"
                   /\ users[id].is_active
                THEN Saturate(@ + 1)
                ELSE @,
       !.locked_at[id] =
           IF out.row.locked_until = {} THEN {}
           ELSE IF out.row.locked_until # users[id].locked_until THEN {now}
                ELSE @ ]

HistClean(id) ==
    IF id \in UserIds
    THEN [hist EXCEPT !.streak[id] = 0, !.failed[id] = 0, !.locked_at[id] = {}]
    ELSE hist

Authenticate(ident, pwin) ==
    LET uid == LookupUser(ident)
        cls == PwClass(uid, pwin)
    IN  /\ IF pwin = {} \/ uid = {}
           THEN /\ last' = [NoCall EXCEPT !.op = "authenticate", !.pw = cls,
                               !.err = "invalid_credentials",
                               !.msg = AuthFailureText(IF pwin = {} THEN "required"
                                                       ELSE "no_user")]
                /\ UNCHANGED <<users, hist>>
           ELSE \E id \in uid :
                  LET out == AuthOutcome(users[id], pwin, now)
                  IN  /\ users' = [users EXCEPT ![id] = out.row]
                      /\ hist' = HistAfterAuth(id, cls, out)
                      /\ last' = [NoCall EXCEPT !.op = "authenticate", !.uid = uid,
                                     !.pw = cls, !.ok = (out.err = ""),
                                     !.err = out.err, !.msg = out.msg,
                                     !.pre = {users[id]},
                                     !.streak = hist'.streak[id],
                                     !.locked_at = hist.locked_at[id]]
        /\ UNCHANGED <<api_keys, now, ticks, password_resets, sessions, issued, nonce,
                       requests, procs>>

\* change_password, up to set_password: the branch that answers, "" for
\* the success.
ChangePasswordRefusal(uid, old, new) ==
    IF uid \notin DOMAIN users THEN "unknown_error"
    ELSE IF users[uid].auth_provider # "local" THEN "unknown_error"
    ELSE IF ~CheckPassword(users[uid], old) THEN "invalid_credentials"
    ELSE IF ~ValidatePassword(new) THEN "invalid_credentials"
    ELSE IF SetPasswordRaises(users[uid], new) THEN "unknown_error"
    ELSE ""

\* change_password: set_password assigns the hash on the loaded row and
\* the method returns without save(); the stored row gets the new hash when
\* the database session is committed afterwards and keeps the old one when
\* the session is dropped at the end of the request.
ChangePassword(uid, old, new) ==
    LET err == ChangePasswordRefusal(uid, old, new)
    IN  /\ IF err # ""
           THEN UNCHANGED users
           ELSE \E committed \in BOOLEAN :
                  users' = [users EXCEPT
                              ![uid] = IF committed THEN SetPassword(@, new) ELSE @]
        /\ last' = [NoCall EXCEPT !.op = "change_password",
                       !.uid = {uid} \cap DOMAIN users,
                       !.ok = (err = ""), !.err = err,
                       !.pre = {users[id] : id \in {uid} \cap DOMAIN users}]
        /\ UNCHANGED <<api_keys, now, ticks, password_resets, sessions, issued, nonce,
                       requests, procs, hist>>

\* What the database does during a call: it works, a query raises, or a
\* commit raises.
DatabaseFaults == {"none", "read", "write"}

\* authenticate has no handler of its own: a query that raises in
\* find_by_email / find_by_username, or a commit that raises in the save()
\* of increment_failed_login / successful_login, leaves the method as an
\* exception. The lookup is reached once identifier and password are
\* present, the save on the wrong-password and the success branch.
AuthenticateRaises(ident, pwin, fault) ==
    IF pwin = {} THEN FALSE
    ELSE IF fault = "read" THEN TRUE
    ELSE IF fault = "write"
    THEN \E id \in LookupUser(ident) :
            LET out == AuthOutcome(users[id], pwin, now)
            IN  out.err = "" \/ out.msg = AuthFailureText("bad_password")
    ELSE FALSE

\* authenticate while the database may fail; a commit that raised has
\* written nothing.
AuthenticateFaulty(ident, pwin, fault) ==
    IF AuthenticateRaises(ident, pwin, fault)
    THEN /\ last' = [NoCall EXCEPT !.op = "authenticate", !.uid = LookupUser(ident),
                        !.pw = PwClass(LookupUser(ident), pwin),
                        !.err = "raised", !.fault = fault]
         /\ UNCHANGED <<users, hist, api_keys, now, ticks, password_resets, sessions,
                        issued, nonce, requests, procs>>
    ELSE Authenticate(ident, pwin)

\* change_password while the database may fail: User.query.get stands
\* before the method's try block.
ChangePasswordFaulty(uid, old, new, fault) ==
    IF fault = "read"
    THEN /\ last' = [NoCall EXCEPT !.op = "change_password", !.err = "raised",
                        !.fault = fault]
         /\ UNCHANGED <<users, hist, api_keys, now, ticks, password_resets, sessions,
                        issued, nonce, requests, procs>>
    ELSE ChangePassword(uid, old, new)

\* User.unlock_account() on a stored row (administrative unlock).
Unlock(id) ==
    /\ users' = [users EXCEPT ![id] = UnlockAccount(users[id])]
    /\ hist' = HistClean(id)
    /\ last' = [NoCall EXCEPT !.op = "unlock_account", !.uid = {id}, !.ok = TRUE,
                   !.pre = {users[id]}]
    /\ UNCHANGED <<api_keys, now, ticks, password_resets, sessions, issued, nonce,
                   requests, procs>>

\* The is_active column of a user row written through the store
\* (BaseModel.update(is_active=...) and save): an account is disabled or
\* enabled again.
SetActive(id, flag) ==
    /\ users[id].is_active # flag
    /\ users' = [users EXCEPT ![id].is_active = flag]
    /\ last' = [NoCall EXCEPT !.op = "set_active", !.uid = {id}, !.ok = TRUE,
                   !.pre = {users[id]}]
    /\ UNCHANGED <<api_keys, now, ticks, password_resets, sessions, issued, nonce,
                   requests, procs, hist>>

\* secrets.token_urlsafe(32): 43 characters, fresh on every draw.
TokenUrlsafe(n) == [len |-> 43, n |-> n]

\* uuid.uuid4() as text: 36 characters, fresh on every draw.
Uuid4(n) == [len |-> 36, n |-> n]

\* What becomes of the reset mail: the mail service is disabled, the mail is
\* sent, send_password_reset_email returns False, or the dispatch raises.
MailOutcomes == {"disabled", "sent", "failed", "raised"}

\* No token, no mail: reset_password returns before the dispatch.
NoTokenFor(uid) == uid = {} \/ \E id \in uid : users[id].auth_provider # "local"

ResetPasswordReportsDispatch(uid, dispatch) ==
    NoTokenFor(uid) \/ dispatch \in {"disabled", "sent"}

\* The value reset_password returns: True on the early return, True after a
\* dispatch that failed (logged) and True after one that raised (caught).
ResetPasswordReturns(uid, dispatch) ==
    IF NoTokenFor(uid) THEN TRUE
    ELSE IF dispatch = "raised" THEN TRUE
    ELSE IF dispatch = "failed" THEN TRUE
    ELSE TRUE

\* POST /api/auth/forgot-password: the result is not looked at.
ForgotPasswordStatus(success) == 200

\* reset_password(email) behind the forgot-password route; a token is made
\* only for a local user.
ResetPassword(email, dispatch) ==
    LET uid == FindByEmail(email)
        success == ResetPasswordReturns(uid, dispatch)
    IN  /\ IF NoTokenFor(uid)
           THEN UNCHANGED <<password_resets, nonce>>
           ELSE \E id \in uid :
                  /\ password_resets' =
                        CreateResetToken(password_resets, id, now,
                                         PasswordResetExpiry \div SecondsPerHour,
                                         TokenUrlsafe(nonce))
                  /\ nonce' = nonce + 1
        /\ last' = [NoCall EXCEPT !.op = "reset_password", !.uid = uid, !.ok = success,
                       !.status = ForgotPasswordStatus(success),
                       !.mail = IF NoTokenFor(uid) THEN "-" ELSE dispatch]
        /\ UNCHANGED <<api_keys, now, ticks, users, sessions, issued, requests, procs, hist>>

ResetTokenInputs == {password_resets[i].token : i \in DOMAIN password_resets}
                        \cup {TokenUrlsafe(0)}

CompletePasswordReset(tok, pw) ==
    LET hit == FindValidToken(password_resets, tok, now)
        fail(e) == /\ last' = [NoCall EXCEPT !.op = "complete_password_reset",
                                  !.tok = {tok}, !.err = e]
                   /\ UNCHANGED <<users, password_resets, hist>>
    IN  /\ IF hit = {} THEN fail("token_invalid")
           ELSE IF ~ValidatePassword(pw) THEN fail("invalid_credentials")
           ELSE \E i \in hit :
                  LET id == password_resets[i].user_id
                  IN  IF users[id].auth_provider # "local" \/ SetPasswordRaises(users[id], pw)
                      THEN fail("unknown_error")
                      ELSE /\ users' = [users EXCEPT
                                          ![id] = UnlockAccount(SetPassword(users[id], pw))]
                           /\ password_resets' =
                                [password_resets EXCEPT ![i].used_at = {now}]
                           /\ hist' = [HistClean(id) EXCEPT !.completed = Append(@, tok)]
                           /\ last' = [NoCall EXCEPT !.op = "complete_password_reset",
                                          !.uid = {id}, !.ok = TRUE, !.err = "",
                                          !.tok = {tok}, !.pre = {users[id]}]
        /\ UNCHANGED <<api_keys, now, ticks, sessions, issued, nonce, requests, procs>>

----------------------------------------------------------------------------
(* database/models/session.py *)

SessionIsExpired(s, t) == t > s.expires_at

SessionIsValid(s, t) == s.is_active /\ ~SessionIsExpired(s, t)

ExtendSession(s, t, duration_seconds) ==
    [s EXCEPT !.expires_at = t + duration_seconds]

Revoke(s) == [s EXCEPT !.is_active = FALSE]

\* Session.create_session: a row with a token of its own, valid for
\* duration_seconds.
NewSession(uid, tok, t, duration_seconds) ==
    [user_id |-> uid, token |-> tok, refresh_token |-> {},
     expires_at |-> t + duration_seconds, is_active |-> TRUE]

First(S) == IF S = {} THEN {} ELSE {CHOOSE i \in S : \A j \in S : i <= j}

FindByTokenAnyActive(rows, tok) ==
    First({i \in DOMAIN rows : rows[i].is_active})

\* find_by_token: the first active row whose token column equals tok.
FindByToken(rows, tok) ==
    First({i \in DOMAIN rows : rows[i].token = tok /\ rows[i].is_active})

\* revoke_user_sessions: every active row of the user but the excluded token.
RevokeUserSessionsOf(rows, uid, exclude) ==
    [i \in DOMAIN rows |->
        IF rows[i].user_id = uid /\ rows[i].is_active /\ {rows[i].token} # exclude
        THEN Revoke(rows[i]) ELSE rows[i]]

\* cleanup_expired_sessions: every active row whose expiry is in the past.
CleanupExpired(rows, t) ==
    [i \in DOMAIN rows |->
        IF rows[i].expires_at < t /\ rows[i].is_active
        THEN Revoke(rows[i]) ELSE rows[i]]

\* The number cleanup_expired_sessions returns: the rows it selected.
CountExpired(rows, t) ==
    Cardinality({i \in DOMAIN rows : rows[i].expires_at < t /\ rows[i].is_active})

----------------------------------------------------------------------------
(* auth/session_manager.py *)

\* flask_jwt_extended create_access_token / create_refresh_token: a token
\* signed with the process secret whose jti claim is a uuid4 drawn by the
\* library; the caller passes the identity and additional claims only.
EncodeJwt(type, identity, n, t, lifetime) ==
    [type |-> type, sub |-> identity, jti |-> {Uuid4(n)}, iat |-> t,
     exp |-> t + lifetime, signed |-> TRUE]

\* A string that is no JWT at all.
Garbage ==
    [type |-> "garbage", sub |-> 0, jti |-> {}, iat |-> 0, exp |-> 0,
     signed |-> FALSE]

\* jwt.decode(token, options={"verify_signature": False}): the payload,
\* or DecodeError for a string that is no JWT.
DecodeUnverifiedRaises(tok) == tok.type = "garbage"

\* jwt.decode(token, key, algorithms): signature first, then exp.
DecodeVerified(tok, t) ==
    IF tok.type = "garbage" \/ ~tok.signed THEN "invalid"
    ELSE IF tok.exp <= t THEN "expired"
    ELSE "ok"

AccessTokens == {e.jwt : e \in {x \in issued : x.jwt.type = "access"}}

RefreshTokens == {e.jwt : e \in {x \in issued : x.jwt.type = "refresh"}}

\* Tokens nobody issued: unsigned ones naming a stored session token as
\* their jti, one without a jti, and a string that is no JWT.
ForgedTokens ==
    { [type |-> "access", sub |-> sessions[i].user_id, jti |-> {sessions[i].token},
       iat |-> 0, exp |-> SessionTimeout, signed |-> FALSE] : i \in DOMAIN sessions }
    \cup { [type |-> "access", sub |-> 1, jti |-> {}, iat |-> 0,
            exp |-> SessionTimeout, signed |-> FALSE], Garbage }

TokenInputs == AccessTokens \cup RefreshTokens \cup ForgedTokens

CreateSession(uid) ==
    /\ Len(sessions) < MaxSessions
    /\ IF uid \notin DOMAIN users
       THEN /\ last' = [NoCall EXCEPT !.op = "create_session", !.err = "raised"]
            /\ UNCHANGED <<sessions, issued, nonce>>
       ELSE LET jti == TokenUrlsafe(nonce)
                access == EncodeJwt("access", uid, nonce, now, SessionTimeout)
                refresh == EncodeJwt("refresh", uid, nonce + 1, now, RefreshTimeout)
                row == [NewSession(uid, TokenUrlsafe(nonce + 1), now, SessionTimeout)
                           EXCEPT !.token = jti, !.refresh_token = {refresh}]
                sid == Len(sessions) + 1
            IN  /\ sessions' = Append(sessions, row)
                /\ issued' = issued \cup
                               {[jwt |-> access, sid |-> sid, via |-> "create_session"],
                                [jwt |-> refresh, sid |-> sid, via |-> "create_session"]}
                /\ nonce' = nonce + 2
                /\ last' = [NoCall EXCEPT !.op = "create_session", !.uid = {uid},
                               !.ok = TRUE, !.err = "", !.out = {access},
                               !.sid = {sid}]
    /\ UNCHANGED <<api_keys, now, ticks, users, password_resets, requests, procs, hist>>

SlidingExtensionAlways(s, t) == ExtendSession(s, t, SessionTimeout)

\* validate_session, 'Extend session if needed': a row with less than one
\* hour left gets session_timeout from now on.
SlidingExtension(s, t) ==
    IF s.expires_at - t < SecondsPerHour THEN ExtendSession(s, t, SessionTimeout) ELSE s

\* What validate_session returns for a token, and the session rows after it.
ValidateOutcome(tok, t) ==
    LET fail(e) == [err |-> e, uid |-> {}, rows |-> sessions, sid |-> {}]
    IN  IF DecodeUnverifiedRaises(tok) THEN fail("unknown_error")
        ELSE IF tok.jti = {} THEN fail("token_invalid")
        ELSE LET hit == UNION {FindByToken(sessions, j) : j \in tok.jti}
             IN  IF hit = {} THEN fail("token_invalid")
                 ELSE LET i == CHOOSE j \in hit : TRUE
                      IN  IF ~SessionIsValid(sessions[i], t) THEN fail("token_expired")
                          ELSE IF DecodeVerified(tok, t) = "expired" THEN fail("token_expired")
                          ELSE IF DecodeVerified(tok, t) = "invalid" THEN fail("token_invalid")
                          ELSE IF tok.sub \notin UserIds THEN fail("token_invalid")
                          ELSE IF ~users[tok.sub].is_active THEN fail("account_disabled")
                          ELSE [err |-> "", uid |-> {tok.sub}, sid |-> {i},
                                rows |-> [sessions EXCEPT ![i] = SlidingExtension(@, t)]]

ValidateSession(tok) ==
    LET res == ValidateOutcome(tok, now)
    IN  /\ sessions' = res.rows
        /\ last' = [NoCall EXCEPT !.op = "validate_session", !.uid = res.uid,
                       !.ok = (res.err = ""), !.err = res.err, !.tok = {tok},
                       !.sid = res.sid,
                       !.imm = (last.op = "create_session" /\ last.out = {tok})]
        /\ UNCHANGED <<api_keys, now, ticks, users, password_resets, issued, nonce, requests,
                       procs, hist>>

RevokeSession(tok) ==
    LET hit == IF DecodeUnverifiedRaises(tok) THEN {}
               ELSE UNION {FindByToken(sessions, j) : j \in tok.jti}
    IN  /\ sessions' = [i \in DOMAIN sessions |->
                          IF i \in hit THEN Revoke(sessions[i]) ELSE sessions[i]]
        /\ hist' = [hist EXCEPT !.revoke_called = @ \cup ({tok} \cap AccessTokens)]
        /\ last' = [NoCall EXCEPT !.op = "revoke_session", !.ok = (hit # {}),
                       !.tok = {tok}, !.sid = hit]
        /\ UNCHANGED <<api_keys, now, ticks, users, password_resets, issued, nonce, requests,
                       procs>>

RevokeUserSessions(uid, exclude) ==
    /\ sessions' = RevokeUserSessionsOf(sessions, uid, exclude)
    /\ last' = [NoCall EXCEPT !.op = "revoke_user_sessions", !.uid = {uid}, !.ok = TRUE]
    /\ UNCHANGED <<api_keys, now, ticks, users, password_resets, issued, nonce, requests,
                   procs, hist>>

CleanupExpiredSessions ==
    /\ sessions' = CleanupExpired(sessions, now)
    /\ last' = [NoCall EXCEPT !.op = "cleanup_expired_sessions", !.ok = TRUE,
                   !.status = CountExpired(sessions, now)]
    /\ UNCHANGED <<api_keys, now, ticks, users, password_resets, issued, nonce, requests,
                   procs, hist>>

RefreshLookupIgnoresActive(tok, t) ==
    IF DecodeVerified(tok, t) # "ok" THEN {}
    ELSE LET hit == First({i \in DOMAIN sessions :
                             /\ sessions[i].user_id = tok.sub
                             /\ sessions[i].refresh_token = {tok}
                             /\ sessions[i].is_active})
         IN  IF hit = {} THEN {}
             ELSE IF \E i \in hit : ~SessionIsValid(sessions[i], t) THEN {}
             ELSE IF tok.sub \notin UserIds THEN {}
             ELSE hit

\* refresh_session, the reads: the session row and the user the token names,
\* or nothing when the call returns None.
RefreshLookup(tok, t) ==
    IF DecodeVerified(tok, t) # "ok" THEN {}
    ELSE LET hit == First({i \in DOMAIN sessions :
                             /\ sessions[i].user_id = tok.sub
                             /\ sessions[i].refresh_token = {tok}
                             /\ sessions[i].is_active})
         IN  IF hit = {} THEN {}
             ELSE IF \E i \in hit : ~SessionIsValid(sessions[i], t) THEN {}
             ELSE IF tok.sub \notin UserIds THEN {}
             ELSE IF ~users[tok.sub].is_active THEN {}
             ELSE hit

\* refresh_session, the writes: the new refresh token and the new expiry.
RefreshRow(s, new_refresh, t) ==
    ExtendSession([s EXCEPT !.refresh_token = {new_refresh}], t, SessionTimeout)

RefreshSession(tok) ==
    LET hit == RefreshLookup(tok, now)
    IN  /\ nonce < MaxNonce
        /\ IF hit = {}
           THEN /\ last' = [NoCall EXCEPT !.op = "refresh_session", !.tok = {tok},
                               !.err = "none"]
                /\ UNCHANGED <<sessions, issued, nonce>>
           ELSE \E i \in hit :
                  LET access == EncodeJwt("access", tok.sub, nonce, now, SessionTimeout)
                      refresh == EncodeJwt("refresh", tok.sub, nonce + 1, now, RefreshTimeout)
                  IN  /\ sessions' = [sessions EXCEPT ![i] = RefreshRow(@, refresh, now)]
                      /\ issued' = issued \cup
                            {[jwt |-> access, sid |-> i, via |-> "refresh_session"],
                             [jwt |-> refresh, sid |-> i, via |-> "refresh_session"]}
                      /\ nonce' = nonce + 2
                      /\ last' = [NoCall EXCEPT !.op = "refresh_session", !.tok = {tok},
                                     !.uid = {tok.sub}, !.ok = TRUE, !.err = "",
                                     !.out = {refresh}, !.sid = {i}]
        /\ hist' = [hist EXCEPT !.refreshed =
                        IF hit = {} THEN @ ELSE @ \cup {<<tok, Uuid4(nonce + 1)>>}]
        /\ UNCHANGED <<api_keys, now, ticks, users, password_resets, requests, procs>>

----------------------------------------------------------------------------
(* database/models/api_key.py and auth/api_key_manager.py *)

AvailablePermissions == {"read", "write", "admin", "user_management"}

GetPermissionsOfActive(u) ==
    IF ~u.is_active THEN {}
    ELSE IF u.is_admin THEN {"read", "write", "admin", "user_management"}
    ELSE {"read", "write"}

\* User.get_permissions: the list ['read'], extended for an admin,
\* appended to otherwise; the callers only test membership.
GetPermissions(u) ==
    LET permissions == IF u.is_admin
                       THEN <<"read">> \o <<"write", "admin", "user_management">>
                       ELSE Append(<<"read">>, "write")
    IN  {permissions[i] : i \in DOMAIN permissions}

\* generate_key: 'fb_' followed by secrets.token_urlsafe(32).
GenerateKey(n) == [prefix |-> "fb_", secret |-> TokenUrlsafe(n)]

\* hash_key: sha256 of the whole key, taken as collision free.
HashKey(key) == <<"sha256", key>>

\* key.startswith('fb_')
StartsWithFb(key) == key.prefix = "fb_"

ApiKeyNeverExpires(k, t) == FALSE

ApiKeyIsExpired(k, t) ==
    IF k.expires_at = {} THEN FALSE ELSE \E e \in k.expires_at : t > e

ApiKeyIsValid(k, t) == k.is_active /\ ~ApiKeyIsExpired(k, t)

\* ApiKey.create_api_key: expires_at only for a non-zero expires_days; the
\* permissions column stays NULL when none are given.
NewApiKey(uid, key, perms, expires_days, t) ==
    [user_id |-> uid, key_hash |-> HashKey(key), permissions |-> perms,
     last_used_at |-> {},
     expires_at |-> {t + d * SecondsPerDay : d \in expires_days \ {0}},
     is_active |-> TRUE]

\* find_by_key: the first active row with the hash of the key.
FindByKey(rows, key) ==
    First({i \in DOMAIN rows : rows[i].key_hash = HashKey(key) /\ rows[i].is_active})

FindValidKey(rows, key, t) ==
    {i \in FindByKey(rows, key) : ApiKeyIsValid(rows[i], t)}

\* get_user_api_keys(user_id, active_only=True)
UserApiKeys(rows, uid) ==
    {i \in DOMAIN rows : rows[i].user_id = uid /\ rows[i].is_active}

\* The keys clients may present: the ones handed out, one never handed out,
\* and one without the 'fb_' prefix.
KeyInputs ==
    {api_keys[i].key_hash[2] : i \in DOMAIN api_keys}
    \cup {GenerateKey(0), [prefix |-> "sk_", secret |-> TokenUrlsafe(0)]}

ExpiresDaysInputs == {{}, {0}, {1}}

KeyLimitNever(rows, uid) == FALSE

\* len(existing_keys) >= self.max_per_user over the user's active keys.
KeyLimitReached(rows, uid) == Cardinality(UserApiKeys(rows, uid)) >= MaxPerUser

\* The checks of create_api_key that end in (None, None).
CreateApiKeyRefusedByEnumerationOnly(uid, perms) ==
    \/ uid \notin UserIds
    \/ KeyLimitReached(api_keys, uid)
    \/ ~(perms \subseteq AvailablePermissions)

CreateApiKeyRefused(uid, perms) ==
    \/ uid \notin DOMAIN users
    \/ KeyLimitReached(api_keys, uid)
    \/ ~(perms \subseteq AvailablePermissions)
    \/ ~(perms \subseteq GetPermissions(users[uid]))

\* APIKeyManager.create_api_key
CreateApiKey(uid, perms, expires_days) ==
    /\ IF CreateApiKeyRefused(uid, perms)
       THEN /\ last' = [NoCall EXCEPT !.op = "create_api_key", !.uid = {uid},
                           !.err = "none", !.need = perms]
            /\ UNCHANGED <<api_keys, nonce>>
       ELSE LET key == GenerateKey(nonce)
                row == NewApiKey(uid, key, IF perms = {} THEN {"read"} ELSE perms,
                                 expires_days, now)
            IN  /\ api_keys' = Append(api_keys, row)
                /\ nonce' = nonce + 1
                /\ last' = [NoCall EXCEPT !.op = "create_api_key", !.uid = {uid},
                               !.ok = TRUE, !.err = "", !.tok = {key},
                               !.sid = {Len(api_keys) + 1}, !.need = perms]
    /\ UNCHANGED <<now, ticks, users, password_resets, sessions, issued, requests,
                   procs, hist>>

\* What becomes of record_usage(): the row is saved, or the commit raises.
RecordUsageOutcomes == {"saved", "raises"}

\* What validate_api_key returns for a key, and the rows after it.
ValidateApiKeyOutcome(key, t, usage) ==
    LET fail(e) == [err |-> e, uid |-> {}, kid |-> {}, rows |-> api_keys]
    IN  IF ~StartsWithFb(key) THEN fail("token_invalid")
        ELSE LET hit == FindValidKey(api_keys, key, t)
             IN  IF hit = {} THEN fail("token_invalid")
                 ELSE LET i == CHOOSE j \in hit : TRUE
                          uid == api_keys[i].user_id
                      IN  IF uid \notin UserIds THEN fail("token_invalid")
                          ELSE IF ~users[uid].is_active THEN fail("account_disabled")
                          ELSE IF usage = "raises" THEN fail("unknown_error")
                          ELSE [err |-> "", uid |-> {uid}, kid |-> {i},
                                rows |-> [api_keys EXCEPT ![i].last_used_at = {t}]]

ValidateApiKey(key, usage) ==
    LET res == ValidateApiKeyOutcome(key, now, usage)
    IN  /\ api_keys' = res.rows
        /\ last' = [NoCall EXCEPT !.op = "validate_api_key", !.uid = res.uid,
                       !.ok = (res.err = ""), !.err = res.err, !.tok = {key},
                       !.sid = res.kid, !.fault = usage]
        /\ UNCHANGED <<now, ticks, users, password_resets, sessions, issued, nonce,
                       requests, procs, hist>>

\* APIKeyManager.revoke_api_key(key_id, user_id)
RevokeApiKey(kid, uid) ==
    LET hit == {i \in DOMAIN api_keys : i = kid /\ api_keys[i].user_id = uid}
    IN  /\ api_keys' = [i \in DOMAIN api_keys |->
                          IF i \in hit THEN [api_keys[i] EXCEPT !.is_active = FALSE]
                          ELSE api_keys[i]]
        /\ last' = [NoCall EXCEPT !.op = "revoke_api_key", !.ok = (hit # {}),
                       !.sid = hit]
        /\ UNCHANGED <<now, ticks, users, password_resets, sessions, issued, nonce,
                       requests, procs, hist>>

ExpiredKeysIncludingNow(rows, t) ==
    {i \in DOMAIN rows : rows[i].is_active /\ \E e \in rows[i].expires_at : e <= t}

\* The rows cleanup_expired_keys selects: active, with an expiry in the past;
\* a NULL expiry is never selected.
ExpiredKeys(rows, t) ==
    {i \in DOMAIN rows : rows[i].is_active /\ \E e \in rows[i].expires_at : e < t}

\* ApiKey.cleanup_expired_keys, behind APIKeyManager.cleanup_expired_keys
CleanupExpiredKeys ==
    /\ api_keys' = [i \in DOMAIN api_keys |->
                      IF i \in ExpiredKeys(api_keys, now)
                      THEN [api_keys[i] EXCEPT !.is_active = FALSE] ELSE api_keys[i]]
    /\ last' = [NoCall EXCEPT !.op = "cleanup_expired_keys", !.ok = TRUE,
                   !.status = Cardinality(ExpiredKeys(api_keys, now))]
    /\ UNCHANGED <<now, ticks, users, password_resets, sessions, issued, nonce,
                   requests, procs, hist>>

\* ApiKey.extend_expiration(days)
ExtendExpirationRow(k, t, days) ==
    [k EXCEPT !.expires_at =
        IF k.expires_at = {} THEN {t + days * SecondsPerDay}
        ELSE {(IF e > t THEN e ELSE t) + days * SecondsPerDay : e \in k.expires_at}]

ExtendExpiration(kid, days) ==
    /\ kid \in DOMAIN api_keys
    /\ api_keys' = [api_keys EXCEPT ![kid] = ExtendExpirationRow(@, now, days)]
    /\ last' = [NoCall EXCEPT !.op = "extend_expiration", !.ok = TRUE, !.sid = {kid}]
    /\ UNCHANGED <<now, ticks, users, password_resets, sessions, issued, nonce,
                   requests, procs, hist>>

\* update_api_key, the writes on the loaded row: the permissions when some
\* are given, the expiry when expires_days is given (none for 0).
UpdateApiKeyRow(k, perms, expires_days, t) ==
    [k EXCEPT !.permissions = IF perms = {} THEN @ ELSE perms,
              !.expires_at = IF expires_days = {} THEN @
                             ELSE {t + d * SecondsPerDay : d \in {x \in expires_days : x > 0}}]

----------------------------------------------------------------------------
(* auth/middleware.py *)

\* ApiKey.get_permissions: ['read'] for a NULL column, else the stored list.
ApiKeyGetPermissions(k) == IF k.permissions = {} THEN {"read"} ELSE k.permissions

\* An Authorization header: the scheme word, the number of spaces after it,
\* and the credential that follows them.
AuthorizationHeader(scheme, gap, cred) == [scheme |-> scheme, gap |-> gap, cred |-> cred]

\* auth_header.startswith(scheme + ' ')
StartsWithScheme(h, scheme) == h.scheme = scheme /\ h.gap >= 1

\* auth_header.split(' ')[1]: the text between the first space and the next,
\* which is empty when two spaces follow the scheme.
SplitSecond(h) == IF h.gap = 1 THEN h.cred ELSE {}

\* SessionManager.extract_token_from_request
ExtractTokenFromRequest(req) ==
    UNION {SplitSecond(h) : h \in {x \in req.authorization : StartsWithScheme(x, "Bearer")}}

\* AuthenticationMiddleware._extract_api_key_from_request
ExtractApiKeyFromRequest(req) ==
    IF \E h \in req.authorization : StartsWithScheme(h, "Api-Key")
    THEN UNION {SplitSecond(h) : h \in req.authorization}
    ELSE IF req.x_api_key # {} THEN req.x_api_key
    ELSE req.api_key

\* AuthenticationMiddleware.authenticate_request: the AuthResult, or none,
\* and the rows after the validation.
AuthenticateRequest(req, t) ==
    LET jwt_token == ExtractTokenFromRequest(req)
        api_key == ExtractApiKeyFromRequest(req)
    IN  IF jwt_token # {}
        THEN LET res == ValidateOutcome(CHOOSE x \in jwt_token : TRUE, t)
             IN  [via |-> "bearer", some |-> TRUE, err |-> res.err, uid |-> res.uid,
                  cred |-> jwt_token, kid |-> {}, api_key_permissions |-> {},
                  sessions |-> res.rows, api_keys |-> api_keys]
        ELSE IF api_key # {}
        THEN LET res == ValidateApiKeyOutcome(CHOOSE x \in api_key : TRUE, t, "saved")
             IN  [via |-> "api_key", some |-> TRUE, err |-> res.err, uid |-> res.uid,
                  cred |-> api_key, kid |-> res.kid,
                  api_key_permissions |->
                      UNION {ApiKeyGetPermissions(api_keys[i]) : i \in res.kid},
                  sessions |-> sessions, api_keys |-> res.rows]
        ELSE [via |-> "none", some |-> FALSE, err |-> "", uid |-> {}, cred |-> {},
              kid |-> {}, api_key_permissions |-> {}, sessions |-> sessions,
              api_keys |-> api_keys]

Decorators == {"auth_required", "admin_required", "permission_required"}

RequestPermissionsOfUser(api_key_permissions, uid) ==
    UNION {GetPermissions(users[id]) : id \in uid \cap UserIds}

\* permission_required: the key's permissions from the metadata, the user's
\* own when the metadata holds none.
RequestPermissions(api_key_permissions, uid) ==
    IF api_key_permissions = {}
    THEN UNION {GetPermissions(users[id]) : id \in uid \cap UserIds}
    ELSE api_key_permissions

DecoratorReplyNoChecks(kind, res, permissions) ==
    IF ~res.some \/ res.err # ""
    THEN [status |-> 401,
          error |-> IF res.some THEN res.err ELSE "authentication_required"]
    ELSE [status |-> 200, error |-> ""]

DecoratorReplyAdminFromKey(kind, res, permissions) ==
    IF ~res.some \/ res.err # ""
    THEN [status |-> 401,
          error |-> IF res.some THEN res.err ELSE "authentication_required"]
    ELSE IF /\ kind = "admin_required"
            /\ "admin" \notin RequestPermissions(res.api_key_permissions, res.uid)
    THEN [status |-> 403, error |-> "admin_required"]
    ELSE IF /\ kind = "permission_required"
            /\ ~(permissions \subseteq RequestPermissions(res.api_key_permissions, res.uid))
    THEN [status |-> 403, error |-> "insufficient_permissions"]
    ELSE [status |-> 200, error |-> ""]

\* What a decorated route answers before its handler runs; 200 stands for
\* the handler being called.
DecoratorReply(kind, res, permissions) ==
    IF ~res.some \/ res.err # ""
    THEN [status |-> 401,
          error |-> IF res.some THEN res.err ELSE "authentication_required"]
    ELSE IF kind = "admin_required" /\ \E id \in res.uid : ~users[id].is_admin
    THEN [status |-> 403, error |-> "admin_required"]
    ELSE IF /\ kind = "permission_required"
            /\ ~(permissions \subseteq RequestPermissions(res.api_key_permissions, res.uid))
    THEN [status |-> 403, error |-> "insufficient_permissions"]
    ELSE [status |-> 200, error |-> ""]

\* A request to a route under auth_required, admin_required or
\* permission_required(permissions).
DecoratedRequest(kind, req, permissions) ==
    LET res == AuthenticateRequest(req, now)
        reply == DecoratorReply(kind, res, permissions)
    IN  /\ sessions' = res.sessions
        /\ api_keys' = res.api_keys
        /\ last' = [NoCall EXCEPT !.op = kind, !.req = {req}, !.need = permissions,
                       !.via = res.via,
                       !.auth = IF ~res.some THEN "none"
                                ELSE IF res.err = "" THEN "ok" ELSE "failed",
                       !.who = res.uid, !.tok = res.cred, !.sid = res.kid,
                       !.status = reply.status, !.err = reply.error,
                       !.ok = (reply.status = 200),
                       !.uid = IF reply.status = 200 THEN res.uid ELSE {}]
        /\ UNCHANGED <<now, ticks, users, password_resets, issued, nonce, requests,
                       procs, hist>>

----------------------------------------------------------------------------
(* auth/rate_limiter.py *)

AuthRateLimit == 5
AuthRateWindow == 60
ReaperAge == 3600

RECURSIVE PopOld(_, _)
PopOldNever(q, cutoff) == q

\* while request_times and request_times[0] < cutoff: popleft()
PopOld(q, cutoff) ==
    IF q # << >> /\ Head(q) < cutoff THEN PopOld(Tail(q), cutoff) ELSE q

\* self._requests[key] of a defaultdict(deque): a missing key reads as empty.
Bucket(reqs, key) == IF key \in DOMAIN reqs THEN reqs[key] ELSE << >>

Put(reqs, key, q) == [k \in DOMAIN reqs \cup {key} |-> IF k = key THEN q ELSE reqs[k]]

\* _cleanup_old_keys: drop instants older than an hour, then empty buckets.
CleanupOldKeys(reqs, t) ==
    LET trimmed == [k \in DOMAIN reqs |-> PopOld(reqs[k], t - ReaperAge)]
        kept == {k \in DOMAIN reqs : trimmed[k] # << >>}
    IN  [k \in kept |-> trimmed[k]]

IsAllowedRecordsDenied(reqs, key, limit, window, t, t2) ==
    LET q == PopOld(Bucket(reqs, key), t - window)
    IN  [allowed |-> Len(q) < limit,
         reqs |-> CleanupOldKeys(Put(reqs, key, Append(q, t)), t2)]

IsAllowedNeverRefuses(reqs, key, limit, window, t, t2) ==
    LET q == PopOld(Bucket(reqs, key), t - window)
    IN  [allowed |-> TRUE, reqs |-> Put(reqs, key, IF Len(q) >= limit THEN q ELSE Append(q, t))]

IsAllowedOffByOne(reqs, key, limit, window, t, t2) ==
    LET q == PopOld(Bucket(reqs, key), t - window)
    IN  IF Len(q) > limit
        THEN [allowed |-> FALSE, reqs |-> Put(reqs, key, q)]
        ELSE [allowed |-> TRUE,
              reqs |-> CleanupOldKeys(Put(reqs, key, Append(q, t)), t2)]

\* is_allowed: the answer and the buckets after the call.  t is the
\* time.time() read before the lock is taken, t2 the one _cleanup_old_keys
\* reads while the lock is held.
IsAllowedAt(reqs, key, limit, window, t, t2) ==
    LET q == PopOld(Bucket(reqs, key), t - window)
    IN  IF Len(q) >= limit
        THEN [allowed |-> FALSE, reqs |-> Put(reqs, key, q)]
        ELSE [allowed |-> TRUE,
              reqs |-> CleanupOldKeys(Put(reqs, key, Append(q, t)), t2)]

\* is_allowed of a call that is not overtaken between its two clock reads.
IsAllowed(reqs, key, limit, window, t) == IsAllowedAt(reqs, key, limit, window, t, t)

\* get_rate_limit_info: evicts like is_allowed and reports the bucket.
GetRateLimitInfo(reqs, key, limit, window, t) ==
    LET q == PopOld(Bucket(reqs, key), t - window)
    IN  [remaining |-> IF limit - Len(q) > 0 THEN limit - Len(q) ELSE 0,
         reset |-> IF q # << >> THEN Head(q) + window ELSE t,
         reqs |-> Put(reqs, key, q)]

----------------------------------------------------------------------------
(* main.py: POST /api/auth/login *)

\* The attributes of the AuthResult dataclass.
AuthResultFields ==
    {"success", "user_id", "username", "email", "display_name", "is_admin",
     "error", "error_message", "metadata"}

\* The attributes of auth_result the login route reads to build its reply.
LoginReplyReads ==
    {"user_id", "username", "email", "display_name", "is_admin",
     "password_change_required"}

ClientIps == {"10.0.0.1"}

RateLimitKey(ip) == <<"ip", ip>>

\* One login request, through its decorators (require_fields, the rate
\* limiter), authenticate, create_session and the building of the reply.
Login(ident, pwin, ip) ==
    LET rl == IsAllowed(requests, RateLimitKey(ip), AuthRateLimit, AuthRateWindow, now)
        uid == LookupUser(ident)
        cls == PwClass(uid, pwin)
        reply(st, e) == [NoCall EXCEPT !.op = "login", !.status = st, !.err = e,
                                       !.uid = uid, !.pw = cls]
    IN  /\ Len(sessions) < MaxSessions
        /\ IF pwin = {}
           THEN /\ last' = reply(400, "missing_required_fields")
                /\ UNCHANGED <<users, sessions, issued, nonce, requests, hist>>
           ELSE IF ~rl.allowed
           THEN /\ requests' = GetRateLimitInfo(rl.reqs, RateLimitKey(ip), AuthRateLimit,
                                                AuthRateWindow, now).reqs
                /\ last' = reply(429, "rate_limit_exceeded")
                /\ UNCHANGED <<users, sessions, issued, nonce, hist>>
           ELSE IF uid = {}
           THEN /\ requests' = rl.reqs
                /\ last' = reply(401, "invalid_credentials")
                /\ UNCHANGED <<users, sessions, issued, nonce, hist>>
           ELSE \E id \in uid :
                  LET out == AuthOutcome(users[id], pwin, now)
                      access == EncodeJwt("access", id, nonce, now, SessionTimeout)
                      refresh == EncodeJwt("refresh", id, nonce + 1, now, RefreshTimeout)
                      row == [NewSession(id, TokenUrlsafe(nonce + 1), now, SessionTimeout)
                                 EXCEPT !.token = TokenUrlsafe(nonce),
                                        !.refresh_token = {refresh}]
                      sid == Len(sessions) + 1
                      raised == ~(LoginReplyReads \subseteq AuthResultFields)
                  IN  /\ requests' = rl.reqs
                      /\ users' = [users EXCEPT ![id] = out.row]
                      /\ hist' = HistAfterAuth(id, cls, out)
                      /\ IF out.err # ""
                         THEN /\ last' = [reply(401, out.err) EXCEPT !.pre = {users[id]}]
                              /\ UNCHANGED <<sessions, issued, nonce>>
                         ELSE /\ sessions' = Append(sessions, row)
                              /\ nonce' = nonce + 2
                              /\ issued' =
                                   IF raised THEN issued
                                   ELSE issued \cup
                                          {[jwt |-> access, sid |-> sid, via |-> "create_session"],
                                           [jwt |-> refresh, sid |-> sid, via |-> "create_session"]}
                              /\ last' = [reply(IF raised THEN 500 ELSE 200,
                                                IF raised THEN "internal_server_error" ELSE "")
                                            EXCEPT !.ok = TRUE, !.pre = {users[id]},
                                                   !.sid = {sid},
                                                   !.out = IF raised THEN {}
                                                           ELSE {access, refresh}]
        /\ UNCHANGED <<api_keys, now, ticks, password_resets, procs>>

----------------------------------------------------------------------------
(* auth/rate_limiter.py: check_rate_limit and get_rate_limit_info as the    *)
(* decorators of the auth endpoints call them                               *)

RateKeys == {RateLimitKey(ip) : ip \in {"10.0.0.1", "10.0.0.2"}}

\* Observations per key: the instant of the first admitted request, the
\* number of is_allowed calls made up to window seconds after it, and the
\* number made later than that.
RateSeen(key, allowed, t) ==
    LET h == hist.rl[key]
        first == IF h.first = {} /\ allowed THEN {t} ELSE h.first
        late == \E f \in first : t > f + AuthRateWindow
    IN  [first |-> first,
         n |-> IF late \/ h.n > AuthRateLimit THEN h.n ELSE h.n + 1,
         late |-> IF late /\ h.late < 2 THEN h.late + 1 ELSE h.late]

CheckRateLimit(key) ==
    LET res == IsAllowed(requests, key, AuthRateLimit, AuthRateWindow, now)
    IN  /\ requests' = res.reqs
        /\ hist' = [hist EXCEPT !.rl[key] = RateSeen(key, res.allowed, now)]
        /\ last' = [NoCall EXCEPT !.op = "is_allowed", !.ok = res.allowed,
                       !.tok = {key}, !.bucket = Bucket(requests, key)]
        /\ UNCHANGED <<api_keys, now, ticks, users, password_resets, sessions, issued,
                       nonce, procs>>

RateLimitInfo(key) ==
    LET res == GetRateLimitInfo(requests, key, AuthRateLimit, AuthRateWindow, now)
    IN  /\ requests' = res.reqs
        /\ last' = [NoCall EXCEPT !.op = "get_rate_limit_info", !.ok = TRUE,
                       !.tok = {key}, !.bucket = Bucket(requests, key)]
        /\ UNCHANGED <<api_keys, now, ticks, users, password_resets, sessions, issued,
                       nonce, procs, hist>>

----------------------------------------------------------------------------
(* Requests of concurrent workers.  A request reads its rows with SELECTs   *)
(* and writes them back at db.session.commit() (BaseModel.save): between    *)
(* the two, other workers run.                                              *)

FlushWholeRow(stored, loaded, changed) == changed

\* The UPDATE a commit sends: the columns the request changed on the row
\* it loaded; the other columns keep what the table holds.
Flush(stored, loaded, changed) ==
    [c \in DOMAIN stored |-> IF changed[c] # loaded[c] THEN changed[c] ELSE stored[c]]

\* authenticate, up to the password check: the user row is loaded.
AuthBegin(p, ident, pwin) ==
    LET uid == LookupUser(ident)
    IN  /\ procs[p].pc = "idle"
        /\ hist.calls < MaxCalls
        /\ uid # {} /\ pwin # {}
        /\ PwClass(uid, pwin) = "wrong"
        /\ procs' = [procs EXCEPT ![p] =
                        [pc |-> "auth", op |-> "authenticate", id |-> uid,
                         snap |-> {users[id] : id \in uid}, inp |-> pwin, ok |-> FALSE]]
        /\ hist' = [hist EXCEPT !.calls = @ + 1]
        /\ UNCHANGED <<api_keys, now, ticks, users, password_resets, sessions, issued, nonce,
                       requests, last>>

\* authenticate, from the lock check on the loaded row to the last commit.
AuthCommit(p) ==
    /\ procs[p].pc = "auth"
    /\ \E id \in procs[p].id, loaded \in procs[p].snap :
         LET out == AuthOutcome(loaded, procs[p].inp, now)
         IN  /\ users' = [users EXCEPT ![id] = Flush(@, loaded, out.row)]
             /\ hist' = [hist EXCEPT !.failed[id] =
                            IF out.err = "invalid_credentials"
                               /\ loaded.auth_provider = "local"
                            THEN Saturate(@ + 1) ELSE @]
             /\ last' = [NoCall EXCEPT !.op = "authenticate", !.uid = {id}, !.pw = "wrong",
                            !.err = out.err, !.pre = {loaded}]
    /\ procs' = [procs EXCEPT ![p] = IdleProc]
    /\ UNCHANGED <<api_keys, now, ticks, password_resets, sessions, issued, nonce, requests>>

\* refresh_session, up to the user check: token verified, rows loaded.
RefreshBegin(p, tok) ==
    LET hit == RefreshLookup(tok, now)
    IN  /\ procs[p].pc = "idle"
        /\ hist.calls < MaxCalls
        /\ hist' = [hist EXCEPT !.calls = @ + 1]
        /\ IF hit = {}
           THEN /\ last' = [NoCall EXCEPT !.op = "refresh_session", !.tok = {tok},
                               !.err = "none"]
                /\ UNCHANGED procs
           ELSE /\ procs' = [procs EXCEPT ![p] =
                               [pc |-> "refresh", op |-> "refresh_session", id |-> hit,
                                snap |-> {sessions[i] : i \in hit}, inp |-> {tok},
                                ok |-> FALSE]]
                /\ UNCHANGED last
        /\ UNCHANGED <<api_keys, now, ticks, users, password_resets, sessions, issued, nonce,
                       requests>>

\* refresh_session, the new tokens and the commit of the session row.
RefreshCommit(p) ==
    /\ procs[p].pc = "refresh"
    /\ \E i \in procs[p].id, loaded \in procs[p].snap, tok \in procs[p].inp :
         LET access == EncodeJwt("access", tok.sub, nonce, now, SessionTimeout)
             refresh == EncodeJwt("refresh", tok.sub, nonce + 1, now, RefreshTimeout)
         IN  /\ sessions' = [sessions EXCEPT
                               ![i] = Flush(@, loaded, RefreshRow(loaded, refresh, now))]
             /\ issued' = issued \cup
                   {[jwt |-> access, sid |-> i, via |-> "refresh_session"],
                    [jwt |-> refresh, sid |-> i, via |-> "refresh_session"]}
             /\ hist' = [hist EXCEPT !.refreshed = @ \cup {<<tok, Uuid4(nonce + 1)>>}]
             /\ last' = [NoCall EXCEPT !.op = "refresh_session", !.tok = {tok},
                            !.uid = {tok.sub}, !.ok = TRUE, !.err = "",
                            !.out = {refresh}, !.sid = {i}]
    /\ nonce' = nonce + 2
    /\ procs' = [procs EXCEPT ![p] = IdleProc]
    /\ UNCHANGED <<api_keys, now, ticks, users, password_resets, requests>>

\* The error message register_user returns on each of its paths; the last
\* one carries the text of the database's IntegrityError.
RegisterMessage(branch) ==
    CASE branch = "email_format" -> "Invalid email format"
      [] branch = "exists" -> "User with this email or username already exists"
      [] branch = "password" -> "Password does not meet the policy"
      [] branch = "insert_failed" ->
            "Failed to create user: (sqlite3.IntegrityError) UNIQUE constraint failed"
      [] branch = "" -> ""

\* The register route: 409 if 'already exists' is in the message, else 400.
RegisterStatus(success, msg) ==
    IF success THEN 201
    ELSE IF msg = "User with this email or username already exists" THEN 409
    ELSE 400

\* The checks of register_user that come before the insert.
RegisterRefusal(username, email, pw) ==
    IF ~HasAt(email) THEN "email_format"
    ELSE IF FindByEmail(email) # {} \/ FindByUsername(username) # {} THEN "exists"
    ELSE IF ~ValidatePassword(pw) THEN "password"
    ELSE ""

\* register_user, up to the insert: format, existing user, password policy.
RegisterBegin(p, username, email, pw) ==
    LET branch == RegisterRefusal(username, email, pw)
    IN  /\ procs[p].pc = "idle"
        /\ IF branch # ""
           THEN /\ last' = [NoCall EXCEPT !.op = "register_user",
                               !.req = {<<username, email>>},
                               !.err = branch, !.msg = RegisterMessage(branch),
                               !.status = RegisterStatus(FALSE, RegisterMessage(branch))]
                /\ UNCHANGED procs
           ELSE /\ procs' = [procs EXCEPT ![p] =
                               [pc |-> "register", op |-> "register_user", id |-> {},
                                snap |-> {}, inp |-> {<<username, email, pw>>},
                                ok |-> FALSE]]
                /\ last' = [NoCall EXCEPT !.op = "register_user_checked",
                               !.req = {<<username, email>>}]
        /\ UNCHANGED <<api_keys, now, ticks, users, password_resets, sessions, issued,
                       nonce, requests, hist>>

\* register_user, User.create_local_user: the INSERT and its commit, which
\* raises when a unique constraint is violated.
RegisterCommit(p) ==
    /\ procs[p].pc = "register"
    /\ \E inp \in procs[p].inp :
         LET row == CreateLocalUser(inp[1], inp[2], inp[3])
             id == Cardinality(DOMAIN users) + 1
             branch == IF UniqueViolation(users, row) THEN "insert_failed" ELSE ""
         IN  /\ users' = IF branch = "" THEN
                             [i \in DOMAIN users \cup {id} |->
                                 IF i = id THEN row ELSE users[i]]
                         ELSE users
             /\ last' = [NoCall EXCEPT !.op = "register_user",
                            !.req = {<<inp[1], inp[2]>>},
                            !.ok = (branch = ""),
                            !.err = branch, !.msg = RegisterMessage(branch),
                            !.uid = IF branch = "" THEN {id} ELSE {},
                            !.status = RegisterStatus(branch = "", RegisterMessage(branch))]
    /\ procs' = [procs EXCEPT ![p] = IdleProc]
    /\ UNCHANGED <<api_keys, now, ticks, password_resets, sessions, issued, nonce,
                   requests, hist>>

\* update_api_key, up to the writes: the row is loaded by id and user, the
\* permissions are checked.
UpdateKeyBegin(p, kid, uid, perms, expires_days) ==
    LET hit == {i \in DOMAIN api_keys : i = kid /\ api_keys[i].user_id = uid}
    IN  /\ procs[p].pc = "idle"
        /\ IF \/ hit = {}
              \/ ~(perms \subseteq AvailablePermissions)
              \/ ~(perms \subseteq GetPermissions(users[uid]))
           THEN /\ last' = [NoCall EXCEPT !.op = "update_api_key", !.uid = {uid},
                               !.err = "false", !.need = perms, !.sid = hit]
                /\ UNCHANGED procs
           ELSE /\ procs' = [procs EXCEPT ![p] =
                               [pc |-> "update_key", op |-> "update_api_key", id |-> hit,
                                snap |-> {api_keys[i] : i \in hit},
                                inp |-> {<<perms, expires_days>>}, ok |-> FALSE]]
                /\ last' = [NoCall EXCEPT !.op = "update_api_key", !.uid = {uid},
                               !.err = "loaded", !.need = perms]
        /\ UNCHANGED <<api_keys, now, ticks, users, password_resets, sessions, issued,
                       nonce, requests, hist>>

\* update_api_key, api_key.save(): the changed columns are written.
UpdateKeyCommit(p) ==
    /\ procs[p].pc = "update_key"
    /\ \E i \in procs[p].id, loaded \in procs[p].snap, inp \in procs[p].inp :
         /\ api_keys' = [api_keys EXCEPT
                           ![i] = Flush(@, loaded, UpdateApiKeyRow(loaded, inp[1], inp[2], now))]
         /\ last' = [NoCall EXCEPT !.op = "update_api_key", !.ok = TRUE, !.err = "",
                        !.sid = {i}, !.need = inp[1]]
    /\ procs' = [procs EXCEPT ![p] = IdleProc]
    /\ UNCHANGED <<now, ticks, users, password_resets, sessions, issued, nonce,
                   requests, hist>>

\* create_api_key, up to the insert: the user is loaded, the active keys
\* are counted, the permissions are checked.
KeyCreateBegin(p, uid, perms) ==
    /\ procs[p].pc = "idle"
    /\ Len(api_keys) < MaxKeyRows
    /\ IF CreateApiKeyRefused(uid, perms)
       THEN /\ last' = [NoCall EXCEPT !.op = "create_api_key", !.uid = {uid},
                           !.err = "none"]
            /\ UNCHANGED procs
       ELSE /\ procs' = [procs EXCEPT ![p] =
                           [pc |-> "create_key", op |-> "create_api_key", id |-> {uid},
                            snap |-> {},
                            inp |-> {IF perms = {} THEN {"read"} ELSE perms},
                            ok |-> FALSE]]
            /\ UNCHANGED last
    /\ UNCHANGED <<api_keys, now, ticks, users, password_resets, sessions, issued, nonce,
                   requests, hist>>

\* create_api_key, the insert by ApiKey.create_api_key.
KeyCreateCommit(p) ==
    /\ procs[p].pc = "create_key"
    /\ \E uid \in procs[p].id, perms \in procs[p].inp :
         LET key == GenerateKey(nonce)
         IN  /\ api_keys' = Append(api_keys, NewApiKey(uid, key, perms, {}, now))
             /\ last' = [NoCall EXCEPT !.op = "create_api_key", !.uid = {uid},
                            !.ok = TRUE, !.err = "", !.tok = {key},
                            !.sid = {Len(api_keys) + 1}]
    /\ nonce' = nonce + 1
    /\ procs' = [procs EXCEPT ![p] = IdleProc]
    /\ UNCHANGED <<now, ticks, users, password_resets, sessions, issued, requests, hist>>

\* reset_password, up to the insert: the user is found and
\* invalidate_user_tokens has committed its mark_as_used() calls.
ResetBegin(p, email) ==
    LET uid == FindByEmail(email)
    IN  /\ procs[p].pc = "idle"
        /\ hist.calls < MaxCalls
        /\ Len(password_resets) < MaxResetRows
        /\ hist' = [hist EXCEPT !.calls = @ + 1]
        /\ IF NoTokenFor(uid)
           THEN /\ last' = [NoCall EXCEPT !.op = "reset_password", !.uid = uid,
                               !.ok = ResetPasswordReturns(uid, "sent"),
                               !.status = ForgotPasswordStatus(TRUE)]
                /\ UNCHANGED <<password_resets, procs>>
           ELSE \E id \in uid :
                  /\ password_resets' = InvalidateUserTokens(password_resets, id, now)
                  /\ procs' = [procs EXCEPT ![p] =
                                  [pc |-> "reset", op |-> "reset_password", id |-> {id},
                                   snap |-> {}, inp |-> {email}, ok |-> FALSE]]
                  /\ UNCHANGED last
        /\ UNCHANGED <<api_keys, now, ticks, users, sessions, issued, nonce, requests>>

\* reset_password, the insert of the new token and the mail.
ResetCommit(p) ==
    /\ procs[p].pc = "reset"
    /\ \E id \in procs[p].id :
         /\ password_resets' =
               Append(password_resets,
                      NewResetRow(id, now, PasswordResetExpiry \div SecondsPerHour,
                                  TokenUrlsafe(nonce)))
         /\ last' = [NoCall EXCEPT !.op = "reset_password", !.uid = {id},
                        !.ok = ResetPasswordReturns({id}, "sent"),
                        !.status = ForgotPasswordStatus(TRUE), !.mail = "sent"]
    /\ nonce' = nonce + 1
    /\ procs' = [procs EXCEPT ![p] = IdleProc]
    /\ UNCHANGED <<api_keys, now, ticks, users, sessions, issued, requests, hist>>

\* complete_password_reset, up to the writes: the token is found valid, the
\* password passes the policy, the user row is loaded.
CompleteBegin(p, tok, pw) ==
    LET hit == FindValidToken(password_resets, tok, now)
        fail(e) == /\ last' = [NoCall EXCEPT !.op = "complete_password_reset",
                                  !.tok = {tok}, !.err = e]
                   /\ UNCHANGED procs
    IN  /\ procs[p].pc = "idle"
        /\ hist.calls < MaxCalls
        /\ hist' = [hist EXCEPT !.calls = @ + 1]
        /\ IF hit = {} THEN fail("token_invalid")
           ELSE IF ~ValidatePassword(pw) THEN fail("invalid_credentials")
           ELSE \E i \in hit :
                  LET id == password_resets[i].user_id
                  IN  IF users[id].auth_provider # "local" THEN fail("unknown_error")
                      ELSE /\ procs' = [procs EXCEPT ![p] =
                                          [pc |-> "complete",
                                           op |-> "complete_password_reset", id |-> {i},
                                           snap |-> {users[id]}, inp |-> {pw},
                                           ok |-> FALSE]]
                           /\ UNCHANGED last
        /\ UNCHANGED <<api_keys, now, ticks, users, password_resets, sessions, issued,
                       nonce, requests>>

\* complete_password_reset, the writes: set_password and unlock_account on
\* the loaded user row, mark_as_used on the loaded token row.
CompleteCommit(p) ==
    /\ procs[p].pc = "complete"
    /\ \E i \in procs[p].id, loaded \in procs[p].snap, pw \in procs[p].inp :
         LET id == password_resets[i].user_id
             tok == password_resets[i].token
         IN  /\ users' = [users EXCEPT
                            ![id] = Flush(@, loaded, UnlockAccount(SetPassword(loaded, pw)))]
             /\ password_resets' = [password_resets EXCEPT ![i].used_at = {now}]
             /\ hist' = [HistClean(id) EXCEPT !.completed = Append(@, tok)]
             /\ last' = [NoCall EXCEPT !.op = "complete_password_reset",
                            !.uid = {id}, !.ok = TRUE, !.err = "",
                            !.tok = {tok}, !.pre = {loaded}]
    /\ procs' = [procs EXCEPT ![p] = IdleProc]
    /\ UNCHANGED <<api_keys, now, ticks, sessions, issued, nonce, requests>>

\* The key the concurrent requests of one client share.
SharedRateKey == RateLimitKey("10.0.0.1")

\* is_allowed and get_rate_limit_info, up to the lock: now = time.time() is
\* read before `with self._lock`.
RateEnter(p, op) ==
    /\ procs[p].pc = "idle"
    /\ procs' = [procs EXCEPT ![p] =
                    [pc |-> "rate", op |-> op, id |-> {}, snap |-> {now},
                     inp |-> {SharedRateKey}, ok |-> FALSE]]
    /\ UNCHANGED <<api_keys, now, ticks, users, password_resets, sessions, issued, nonce,
                   requests, last, hist>>

\* The body under the lock, with the instant that was read on entry.
RateLocked(p) ==
    /\ procs[p].pc = "rate"
    /\ \E t \in procs[p].snap, key \in procs[p].inp :
         IF procs[p].op = "is_allowed"
         THEN LET res == IsAllowedAt(requests, key, AuthRateLimit, AuthRateWindow, t, now)
              IN  /\ requests' = res.reqs
                  /\ last' = [NoCall EXCEPT !.op = "is_allowed", !.ok = res.allowed,
                                 !.tok = {key}, !.bucket = Bucket(requests, key)]
         ELSE LET res == GetRateLimitInfo(requests, key, AuthRateLimit, AuthRateWindow, t)
              IN  /\ requests' = res.reqs
                  /\ last' = [NoCall EXCEPT !.op = "get_rate_limit_info", !.ok = TRUE,
                                 !.tok = {key}, !.bucket = Bucket(requests, key)]
    /\ procs' = [procs EXCEPT ![p] = IdleProc]
    /\ UNCHANGED <<api_keys, now, ticks, users, password_resets, sessions, issued, nonce,
                   hist>>

----------------------------------------------------------------------------
(* The clock *)

LockoutSteps == {301, 18000}

Tick(d) ==
    /\ ticks < MaxTicks
    /\ now' = now + d
    /\ ticks' = ticks + 1
    /\ last' = NoCall
    /\ UNCHANGED <<users, password_resets, sessions, api_keys, issued, nonce,
                   requests, procs, hist>>

----------------------------------------------------------------------------
(* Initial state: the database after the users were created *)

InitUsers ==
    { [id \in UserIds |->
         IF id = 1
         THEN NewUser({"alice"}, "Alice@Example.com", "local", Pw("Abcd1234"), active, FALSE)
         ELSE NewUser({}, "bob@example.com", "azure_ad", Pw("abc"), TRUE, TRUE)]
      : active \in BOOLEAN }

Init ==
    /\ now = 0
    /\ ticks = 0
    /\ users \in InitUsers
    /\ password_resets = << >>
    /\ sessions = << >>
    /\ api_keys = << >>
    /\ issued = {}
    /\ nonce = 1
    /\ requests = [k \in {} |-> << >>]
    /\ procs = [p \in ProcIds |-> IdleProc]
    /\ last = NoCall
    /\ hist = [streak |-> [id \in UserIds |-> 0],
               failed |-> [id \in UserIds |-> 0],
               locked_at |-> [id \in UserIds |-> {}],
               revoke_called |-> {},
               refreshed |-> {},
               calls |-> 0,
               rl |-> [k \in RateKeys |-> [first |-> {}, n |-> 0, late |-> 0]],
               completed |-> << >>]

\* The local auth provider and the credential store, one call at a time.
Next ==
    \/ \E ident \in Identifiers, pwin \in PasswordInputs : Authenticate(ident, pwin)
    \/ \E id \in UserIds : Unlock(id)
    \/ \E email \in Identifiers :
          Len(password_resets) < MaxResets /\ ResetPassword(email, "sent")
    \/ \E tok \in ResetTokenInputs, pw \in Passwords : CompletePasswordReset(tok, pw)
    \/ \E d \in LockoutSteps : Tick(d)

Spec == Init /\ [][Next]_vars

SessionSteps == {82801}

\* The session registry, one call at a time.
NextSession ==
    \/ \E uid \in UserIds \cup {3} : CreateSession(uid)
    \/ \E tok \in TokenInputs : ValidateSession(tok)
    \/ \E tok \in TokenInputs : RevokeSession(tok)
    \/ \E tok \in TokenInputs : RefreshSession(tok)
    \/ \E uid \in UserIds, ex \in {{}} \cup {{sessions[i].token} : i \in DOMAIN sessions} :
          RevokeUserSessions(uid, ex)
    \/ CleanupExpiredSessions
    \/ \E d \in SessionSteps : Tick(d)

SpecSession == Init /\ [][NextSession]_vars

RateSteps == {61}

\* The login route, one request at a time.
NextLogin ==
    \/ \E ident \in Identifiers, pwin \in PasswordInputs, ip \in ClientIps :
          Login(ident, pwin, ip)
    \/ \E d \in RateSteps : Tick(d)

SpecLogin == Init /\ [][NextLogin]_vars

\* Concurrent wrong-password logins of the worker threads.
NextAuthConc ==
    \/ \E p \in ProcIds, ident \in Identifiers, pwin \in PasswordInputs :
          AuthBegin(p, ident, pwin)
    \/ \E p \in ProcIds : AuthCommit(p)

SpecAuthConc == Init /\ [][NextAuthConc]_vars

\* Concurrent refreshes of the worker threads, on sessions created before.
NextRefreshConc ==
    \/ \E uid \in UserIds : CreateSession(uid)
    \/ \E p \in ProcIds, tok \in TokenInputs : RefreshBegin(p, tok)
    \/ \E p \in ProcIds : RefreshCommit(p)

SpecRefreshConc == Init /\ [][NextRefreshConc]_vars

LimiterSteps == {60, 3601}

ResetSteps == {1, 3600}

ApiKeySteps == {1, 86400}

\* The API key registry, one call at a time.
NextApiKey ==
    \/ \E uid \in UserIds, expires_days \in ExpiresDaysInputs :
          Len(api_keys) < MaxApiKeys /\ CreateApiKey(uid, {}, expires_days)
    \/ \E key \in KeyInputs : ValidateApiKey(key, "saved")
    \/ \E kid \in 1..MaxApiKeys, uid \in UserIds : RevokeApiKey(kid, uid)
    \/ \E id \in UserIds, flag \in BOOLEAN : SetActive(id, flag)
    \/ \E d \in ApiKeySteps : Tick(d)

SpecApiKey == Init /\ [][NextApiKey]_vars

\* The API key registry when the commit of record_usage can fail.
NextKeyFaults ==
    \/ \E uid \in UserIds, expires_days \in {{}, {1}} :
          Len(api_keys) < MaxApiKeys /\ CreateApiKey(uid, {}, expires_days)
    \/ \E key \in KeyInputs, usage \in RecordUsageOutcomes : ValidateApiKey(key, usage)
    \/ \E kid \in 1..MaxApiKeys, uid \in UserIds : RevokeApiKey(kid, uid)
    \/ \E d \in ApiKeySteps : Tick(d)

SpecKeyFaults == Init /\ [][NextKeyFaults]_vars

RegisterUsernames == {"alice", "carol", "dave"}

RegisterEmails ==
    {"Alice@Example.com", "carol@example.com", "Carol@Example.com", "dave@example.com",
     "nobody"}

\* Registrations of concurrent workers.
NextRegister ==
    \/ \E p \in ProcIds, username \in RegisterUsernames, email \in RegisterEmails,
          pw \in {Pw("Wxyz5678"), Pw("abc")} :
          Cardinality(DOMAIN users) < MaxUsers /\ RegisterBegin(p, username, email, pw)
    \/ \E p \in ProcIds : RegisterCommit(p)

SpecRegister == Init /\ [][NextRegister]_vars

SlidingSteps == {1, 82800}

\* Sessions validated far from, one hour before and less than one hour
\* before their expiry.
NextSliding ==
    \/ \E uid \in UserIds : CreateSession(uid)
    \/ \E tok \in TokenInputs : ValidateSession(tok)
    \/ \E uid \in UserIds : RevokeUserSessions(uid, {})
    \/ \E d \in SlidingSteps : Tick(d)

SpecSliding == Init /\ [][NextSliding]_vars

CleanupSteps == {1, 86400}

\* Sessions and API keys that expire and are swept, one call at a time.
NextCleanup ==
    \/ CreateSession(1)
    \/ \E expires_days \in {{}, {1}} :
          Len(api_keys) < MaxApiKeys /\ CreateApiKey(1, {}, expires_days)
    \/ RevokeUserSessions(1, {})
    \/ RevokeApiKey(1, 1)
    \/ CleanupExpiredSessions
    \/ CleanupExpiredKeys
    \/ \E d \in CleanupSteps : Tick(d)

SpecCleanup == Init /\ [][NextCleanup]_vars

\* Sessions and API keys under every operation that writes their rows,
\* with a refresh and an update that other calls interleave with.  The two
\* tables share no operation, so a behaviour fills one of them.
NextLifecycle ==
    \/ Len(sessions) < 1 /\ api_keys = << >> /\ CreateSession(1)
    \/ \E tok \in AccessTokens : ValidateSession(tok)
    \/ \E tok \in RefreshTokens : RefreshBegin(1, tok)
    \/ RefreshCommit(1)
    \/ RevokeUserSessions(1, {})
    \/ CleanupExpiredSessions
    \/ Len(api_keys) < 1 /\ sessions = << >> /\ CreateApiKey(2, {}, {1})
    \/ \E key \in KeyInputs : ValidateApiKey(key, "saved")
    \/ UpdateKeyBegin(2, 1, 2, {"admin"}, {1})
    \/ UpdateKeyCommit(2)
    \/ /\ \A i \in DOMAIN api_keys : \A e \in api_keys[i].expires_at :
             e <= now + SecondsPerDay
       /\ ExtendExpiration(1, 1)
    \/ RevokeApiKey(1, 2)
    \/ CleanupExpiredKeys
    \/ \E d \in {86401} : Tick(d)

SpecLifecycle == Init /\ [][NextLifecycle]_vars

\* Permission lists asked for at creation and update: none, allowed ones,
\* ones only an administrator holds, and one outside the enumeration.
PermissionInputs ==
    {{}, {"read"}, {"read", "write"}, {"admin"}, {"write", "user_management"},
     {"read", "delete"}}

\* Keys created and updated with every permission list, by every user.
NextKeyPermissions ==
    \/ \E uid \in UserIds, perms \in PermissionInputs :
          Len(api_keys) < MaxApiKeys /\ CreateApiKey(uid, perms, {})
    \/ \E kid \in 1..MaxApiKeys, uid \in UserIds, perms \in PermissionInputs :
          UpdateKeyBegin(1, kid, uid, perms, {})
    \/ UpdateKeyCommit(1)

SpecKeyPermissions == Init /\ [][NextKeyPermissions]_vars

\* The users whose password is changed: the local user of the initial
\* database and the one that registers.
PasswordUsers == {1, 3}

\* Password changes and resets of users that hold a session and a key; the
\* registered user must still change the password.
NextPassword ==
    \/ users[1].is_active /\ 3 \notin DOMAIN users
          /\ RegisterBegin(1, "carol", "Carol@Example.com", Pw("Wxyz5678"))
    \/ RegisterCommit(1)
    \/ \E uid \in PasswordUsers : Len(sessions) < 1 /\ CreateSession(uid)
    \/ \E uid \in PasswordUsers : Len(api_keys) < 1 /\ CreateApiKey(uid, {}, {})
    \/ \E email \in {"Alice@Example.com", "carol@example.com"} :
          Len(password_resets) < MaxResets /\ ResetPassword(email, "sent")
    \/ \E tok \in ResetTokenInputs, pw \in Passwords : CompletePasswordReset(tok, pw)
    \/ \E uid \in PasswordUsers \cup {2}, old \in Passwords, new \in Passwords :
          ChangePassword(uid, old, new)

SpecPassword == Init /\ [][NextPassword]_vars

\* The core's operations while queries and commits may raise.
NextFaults ==
    \/ \E ident \in Identifiers, pwin \in PasswordInputs, fault \in DatabaseFaults :
          AuthenticateFaulty(ident, pwin, fault)
    \/ \E uid \in UserIds, old \in Passwords, new \in Passwords,
          fault \in DatabaseFaults \ {"write"} :
          ChangePasswordFaulty(uid, old, new, fault)
    \/ \E uid \in UserIds : Len(api_keys) < 1 /\ CreateApiKey(uid, {}, {})
    \/ \E key \in KeyInputs, usage \in RecordUsageOutcomes : ValidateApiKey(key, usage)

SpecFaults == Init /\ [][NextFaults]_vars

\* The Authorization headers, X-API-Key headers and api_key parameters of
\* the requests clients send: well formed ones, and ones with two spaces
\* after the scheme.
HeaderInputs ==
    {AuthorizationHeader("Bearer", 1, {tok}) : tok \in AccessTokens \cup {Garbage}}
    \cup {AuthorizationHeader("Bearer", 2, {Garbage})}
    \cup {AuthorizationHeader("Api-Key", gap, {key}) :
             gap \in {1, 2}, key \in {api_keys[i].key_hash[2] : i \in DOMAIN api_keys}}
    \cup {AuthorizationHeader("Api-Key", 1, {GenerateKey(0)})}

RequestInputs ==
    {[authorization |-> a, x_api_key |-> x, api_key |-> q] :
        a \in {{}} \cup {{h} : h \in HeaderInputs},
        x \in {{}} \cup {{api_keys[i].key_hash[2]} : i \in DOMAIN api_keys},
        q \in {{}, {GenerateKey(0)}}}

\* Requests to the decorated routes, with a session and an API key issued.
NextGateway ==
    \/ Len(sessions) < 1 /\ CreateSession(1)
    \/ \E uid \in UserIds, perms \in {{}, {"admin"}} :
          Len(api_keys) < 1 /\ CreateApiKey(uid, perms, {})
    \/ \E kind \in Decorators \ {"permission_required"}, req \in RequestInputs :
          DecoratedRequest(kind, req, {})
    \/ \E req \in RequestInputs : DecoratedRequest("permission_required", req, {"read", "write"})

SpecGateway == Init /\ [][NextGateway]_vars

\* API keys created up to the limit per user, and revoked.
NextKeyLimit ==
    \/ \E uid \in UserIds, perms \in {{}, {"admin"}} :
          Len(api_keys) <= MaxKeyRows /\ CreateApiKey(uid, perms, {})
    \/ \E kid \in {1, MaxPerUser}, uid \in UserIds : RevokeApiKey(kid, uid)

SpecKeyLimit == Init /\ [][NextKeyLimit]_vars

\* API keys created by concurrent workers, and revoked.
NextKeyCap ==
    \/ \E p \in ProcIds, uid \in UserIds : KeyCreateBegin(p, uid, {})
    \/ \E p \in ProcIds : KeyCreateCommit(p)
    \/ \E kid \in {1, MaxPerUser}, uid \in UserIds : RevokeApiKey(kid, uid)

SpecKeyCap == Init /\ [][NextKeyCap]_vars

\* Password resets, one call at a time.
NextReset ==
    \/ \E email \in Identifiers, dispatch \in MailOutcomes :
          Len(password_resets) < MaxResetRows /\ ResetPassword(email, dispatch)
    \/ \E tok \in ResetTokenInputs, pw \in Passwords : CompletePasswordReset(tok, pw)
    \/ \E d \in ResetSteps : Tick(d)

SpecReset == Init /\ [][NextReset]_vars

\* Password resets requested and completed by concurrent workers.
NextResetConc ==
    \/ \E p \in ProcIds, email \in Identifiers : ResetBegin(p, email)
    \/ \E p \in ProcIds : ResetCommit(p)
    \/ \E p \in ProcIds, tok \in ResetTokenInputs, pw \in Passwords :
          CompleteBegin(p, tok, pw)
    \/ \E p \in ProcIds : CompleteCommit(p)
    \/ \E d \in ResetSteps : Tick(d)

SpecResetConc == Init /\ [][NextResetConc]_vars

\* The rate limiter, one call at a time.
NextRate ==
    \/ \E key \in RateKeys : CheckRateLimit(key)
    \/ \E key \in RateKeys : RateLimitInfo(key)
    \/ \E d \in LimiterSteps : Tick(d)

SpecRate == Init /\ [][NextRate]_vars

\* The rate limiter under concurrent requests of the worker threads.
NextRateConc ==
    \/ \E p \in ProcIds, op \in {"is_allowed", "get_rate_limit_info"} : RateEnter(p, op)
    \/ \E p \in ProcIds : RateLocked(p)
    \/ \E d \in LimiterSteps : Tick(d)

SpecRateConc == Init /\ [][NextRateConc]_vars

\* Sessions and API keys of accounts that are disabled and enabled again.
NextActive ==
    \/ \E uid \in UserIds : CreateSession(uid)
    \/ \E tok \in AccessTokens \cup RefreshTokens : ValidateSession(tok)
    \/ \E tok \in AccessTokens \cup RefreshTokens : RefreshSession(tok)
    \/ \E uid \in UserIds, perms \in {{}, {"admin"}} :
          Len(api_keys) < MaxApiKeys /\ CreateApiKey(uid, perms, {})
    \/ \E key \in KeyInputs : ValidateApiKey(key, "saved")
    \/ \E id \in UserIds, flag \in BOOLEAN : SetActive(id, flag)

SpecActive == Init /\ [][NextActive]_vars

----------------------------------------------------------------------------
(* Claims *)

\* C1: validate_session, called right after create_session for an existing
\* active user with the access token it returned, succeeds with that user's id.
C1_ValidateAfterCreate ==
    (/\ last.op = "validate_session"
     /\ last.imm
     /\ \A t \in last.tok : users[t.sub].is_active)
    => (last.ok /\ \A t \in last.tok : last.uid = {t.sub})

\* C2: once revoke_session was called with a session's access token, every
\* later validate_session with that token fails, as token_invalid or
\* token_expired, whatever was called in between.
C2_NoReplayAfterRevoke ==
    (/\ last.op = "validate_session"
     /\ last.tok # {}
     /\ last.tok \subseteq hist.revoke_called)
    => (~last.ok /\ last.err \in {"token_invalid", "token_expired"})

C2_Witness ==
    /\ last.op = "validate_session"
    /\ last.tok # {}
    /\ last.tok \subseteq hist.revoke_called
    /\ last.err = "token_invalid"
    /\ \E i \in DOMAIN sessions : sessions[i].is_active

\* The account of a recorded authenticate call was local and active.
OnLocalActive ==
    \E u \in last.pre : u.auth_provider = "local" /\ u.is_active

\* The account of a recorded authenticate call was locked when it was made.
WasLocked ==
    \E u \in last.pre : \E lu \in u.locked_until : now < lu

\* C3 as stated: of the consecutive wrong-password calls on a clean account,
\* calls 1..T-1 return invalid_credentials, and call T and every call made
\* before the lockout expires return account_locked.
C3_LockedAtThreshold ==
    (last.op = "authenticate" /\ last.pw = "wrong" /\ OnLocalActive)
    => /\ last.streak < MaxLoginAttempts => last.err = "invalid_credentials"
       /\ last.streak = MaxLoginAttempts => last.err = "account_locked"
       /\ (last.streak > MaxLoginAttempts /\ WasLocked) => last.err = "account_locked"

\* C3 amended: calls 1..T return invalid_credentials, call T sets the lock,
\* and every call after it made before the lockout expires returns
\* account_locked.
C3_LockedAfterThreshold ==
    (last.op = "authenticate" /\ last.pw = "wrong" /\ OnLocalActive)
    => /\ last.streak <= MaxLoginAttempts => last.err = "invalid_credentials"
       /\ last.streak = MaxLoginAttempts =>
             \A id \in last.uid : IsLocked(users[id], now)
       /\ (last.streak > MaxLoginAttempts /\ WasLocked) => last.err = "account_locked"

C3_Witness ==
    /\ last.op = "authenticate" /\ last.pw = "wrong" /\ OnLocalActive
    /\ last.streak = MaxLoginAttempts + 1
    /\ WasLocked
    /\ last.err = "account_locked"

\* C4: an account locked at time t accepts the correct password at any time
\* later than t + 300 seconds: authenticate succeeds and the counter is 0.
C4_UnlockedAfterLockoutDuration ==
    (/\ last.op = "authenticate" /\ last.pw = "correct" /\ OnLocalActive
     /\ \E t \in last.locked_at : now > t + LockoutDuration)
    => (last.ok /\ \A id \in last.uid : users[id].failed_login_count = 0)

\* C5: while an account is locked, authenticate returns account_locked for
\* the correct password and for a wrong one, and leaves the user row as it was.
C5_LockedRejectsAndKeepsRow ==
    (last.op = "authenticate" /\ last.pw \in {"correct", "wrong"} /\ WasLocked)
    => /\ last.err = "account_locked"
       /\ \A id \in last.uid : {users[id]} = last.pre

C5_Witness ==
    /\ last.op = "authenticate" /\ last.pw = "correct" /\ WasLocked
    /\ last.err = "account_locked"
    /\ \A id \in last.uid : {users[id]} = last.pre

\* C6: right after a successful authenticate, an unlock_account or a
\* successful complete_password_reset, the user's failed_login_count is 0
\* and locked_until is empty.
C6_CleanAfterSuccessOrUnlock ==
    (\/ last.op \in {"authenticate", "complete_password_reset"} /\ last.ok
     \/ last.op = "unlock_account")
    => \A id \in last.uid :
          users[id].failed_login_count = 0 /\ users[id].locked_until = {}

C6_Witness ==
    /\ last.op = "complete_password_reset" /\ last.ok
    /\ \E u \in last.pre :
          u.failed_login_count >= MaxLoginAttempts /\ u.locked_until # {}
    /\ \A id \in last.uid : users[id].failed_login_count = 0

\* C7: under concurrent wrong-password calls every completed failed attempt
\* raises failed_login_count by one, so the account is locked once T failed
\* attempts have completed.
C7_NoLostFailedLogin ==
    \A id \in UserIds :
       /\ users[id].failed_login_count = hist.failed[id]
       /\ hist.failed[id] >= MaxLoginAttempts => users[id].locked_until # {}

\* C8: a login request whose credentials authenticate gets 200 with both
\* tokens, and a login request that ends in an error created no session row.
C8_LoginAllOrNothing ==
    last.op = "login"
    => /\ last.ok => (last.status = 200 /\ last.out # {})
       /\ last.status # 200 => last.sid = {}

\* C9: revoke_session with the access token create_session returned gives
\* True and leaves that session's row inactive.
C9_RevokeByIssuedToken ==
    \A e \in issued :
       (/\ last.op = "revoke_session"
        /\ last.tok = {e.jwt}
        /\ e.jwt.type = "access" /\ e.via = "create_session")
       => (last.ok /\ ~sessions[e.sid].is_active)

\* C10: a refresh token yields at most one successful refresh_session, also
\* when the calls run concurrently.
C10_RefreshTokenSingleUse ==
    \A x \in hist.refreshed, y \in hist.refreshed : x[1] = y[1] => x = y

\* C11: no validate_session, refresh_session or validate_api_key call
\* succeeds for a user whose is_active flag is false, also when the session
\* or the key was issued while the user was active.
C11_NoSuccessForInactiveUser ==
    (last.op \in {"validate_session", "refresh_session", "validate_api_key"} /\ last.ok)
    => (last.uid # {} /\ \A id \in last.uid : users[id].is_active)

C11_Witness ==
    /\ last.op = "refresh_session"
    /\ ~last.ok
    /\ \E tok \in last.tok :
          /\ tok \in RefreshTokens
          /\ ~users[tok.sub].is_active
          /\ \E i \in DOMAIN sessions :
                sessions[i].refresh_token = {tok} /\ SessionIsValid(sessions[i], now)

\* C12: validate_session reports token_expired when the session row of the
\* token is active but past its expiry, or the token's own exp has passed,
\* and token_invalid when no active session row belongs to the token (never
\* issued, or revoked) or its signature is invalid.
C12_DistinctReasons ==
    last.op = "validate_session"
    => \A tok \in last.tok :
         LET rows == {e.sid : e \in {x \in issued : x.jwt = tok}}
                       \cup {i \in DOMAIN sessions : {sessions[i].token} = tok.jti}
             active == {i \in rows : sessions[i].is_active}
             lapsed == {i \in active : SessionIsExpired(sessions[i], now)}
         IN  tok.type # "garbage"
             => /\ (active = {} \/ (~tok.signed /\ lapsed = {}))
                     => last.err = "token_invalid"
                /\ (active # {} /\ tok.signed /\ (lapsed # {} \/ tok.exp <= now))
                     => last.err = "token_expired"

\* C13: is_allowed first evicts the key's instants older than now - window,
\* then admits iff fewer than limit instants remain, and records the current
\* instant only when it admits: a denied call adds nothing to the bucket.
C13_EvictThenAdmitBelowLimit ==
    last.op = "is_allowed"
    => \A key \in last.tok :
         LET kept == SelectSeq(last.bucket, LAMBDA x : ~(x < now - AuthRateWindow))
         IN  /\ last.ok = (Len(kept) < AuthRateLimit)
             /\ Bucket(requests, key) = IF last.ok THEN Append(kept, now) ELSE kept

C13_Witness ==
    /\ last.op = "is_allowed"
    /\ last.ok
    /\ Len(last.bucket) = AuthRateLimit
    /\ \E i \in DOMAIN last.bucket : last.bucket[i] < now - AuthRateWindow
    /\ \E i \in DOMAIN last.bucket : ~(last.bucket[i] < now - AuthRateWindow)
    /\ \A key \in last.tok : hist.rl[key].n = AuthRateLimit + 1

\* C14: for a fresh key the first limit calls made within one window are
\* admitted and the next call within that window is denied; the first call
\* made after window seconds have elapsed from the first admitted request is
\* admitted again.
C14_LimitPerWindow ==
    last.op = "is_allowed"
    => \A key \in last.tok :
         LET h == hist.rl[key]
         IN  /\ (h.late = 0 /\ h.n <= AuthRateLimit) => last.ok
             /\ (h.late = 0 /\ h.n = AuthRateLimit + 1) => ~last.ok
             /\ (h.late = 1 /\ \E f \in h.first : now > f + AuthRateWindow) => last.ok

C14_Witness ==
    /\ last.op = "is_allowed"
    /\ last.ok
    /\ \E key \in last.tok :
          /\ hist.rl[key].late = 1
          /\ hist.rl[key].n = AuthRateLimit + 1
          /\ Len(last.bucket) = AuthRateLimit

\* C15: under any interleaving of concurrent is_allowed and
\* get_rate_limit_info calls on one key, the instants recorded for the key
\* that lie within any trailing window number at most limit.
C15_RecordedWithinWindowAtMostLimit ==
    \A key \in DOMAIN requests :
        LET q == requests[key]
        IN  \A T \in {q[i] : i \in DOMAIN q} \cup {now} :
                Cardinality({i \in DOMAIN q : T - AuthRateWindow <= q[i] /\ q[i] <= T})
                    <= AuthRateLimit

C15_Witness ==
    /\ last.op = "is_allowed"
    /\ ~last.ok
    /\ \E p \in ProcIds : procs[p].pc = "rate" /\ procs[p].snap # {now}
    /\ \E key \in last.tok :
          /\ Len(Bucket(requests, key)) = AuthRateLimit
          /\ \E i, j \in DOMAIN requests[key] : i < j /\ requests[key][i] > requests[key][j]

\* C17: when a second reset token is created for a user, the first is
\* marked used by then; a later complete_password_reset with the first token
\* fails with token_invalid and leaves the password as it was.
C17_SupersededTokenIsDead ==
    [][LET rows == password_resets
           rows2 == password_resets'
       IN  /\ Len(rows2) > Len(rows)
                 => \A i \in DOMAIN rows :
                      rows[i].user_id = rows2[Len(rows2)].user_id => rows2[i].used_at # {}
           /\ (/\ last'.op = "complete_password_reset"
               /\ \E tok \in last'.tok : \E i, j \in DOMAIN rows :
                     i < j /\ rows[i].token = tok /\ rows[j].user_id = rows[i].user_id)
                 => (last'.err = "token_invalid" /\ users' = users)]_vars

C17_Witness ==
    /\ last.op = "complete_password_reset"
    /\ last.err = "token_invalid"
    /\ \E tok \in last.tok : \E i, j \in DOMAIN password_resets :
          /\ i < j
          /\ password_resets[i].token = tok
          /\ password_resets[j].user_id = password_resets[i].user_id
          /\ ~(now > password_resets[i].expires_at)
          /\ ResetIsValid(password_resets[j], now)

\* C19: reset_password gives the caller the same result, True and HTTP 200
\* at the forgot-password endpoint, for an unknown email, for the email of a
\* non-local user and for the email of a local user, also when the dispatch
\* of the mail fails or raises.
C19_SameResultForEveryEmail ==
    last.op = "reset_password" => (last.ok /\ last.status = 200)

C19_Witness ==
    /\ last.op = "reset_password"
    /\ last.ok
    /\ last.mail = "raised"
    /\ \E i \in DOMAIN password_resets : ResetIsValid(password_resets[i], now)

\* C16: in every reachable state, also while reset_password calls for one
\* user run concurrently, each user has at most one valid (unused and
\* unexpired) reset token.
C16_AtMostOneValidResetToken ==
    \A id \in UserIds :
        Cardinality({i \in DOMAIN password_resets :
                        /\ password_resets[i].user_id = id
                        /\ ResetIsValid(password_resets[i], now)}) <= 1

\* C18: a reset token leads to at most one successful
\* complete_password_reset, also when completions with the same token run
\* concurrently; a completion with a token that has already been used fails
\* with token_invalid.
C18_ResetTokenSingleUse ==
    /\ \A i, j \in DOMAIN hist.completed :
          hist.completed[i] = hist.completed[j] => i = j
    /\ (/\ last.op = "complete_password_reset"
        /\ ~last.ok
        /\ \E tok \in last.tok : \E i \in DOMAIN hist.completed : hist.completed[i] = tok)
          => last.err = "token_invalid"

C29_GenericCredentialError ==
    (last.op = "authenticate" /\ last.pw # "missing")
    => LET generic == (last.err = "invalid_credentials"
                         /\ last.msg = "Invalid username/email or password")
       IN  /\ last.uid = {} => generic
           /\ \A u \in last.pre :
                /\ u.auth_provider # "local" => generic
                /\ (/\ u.auth_provider = "local"
                    /\ ~IsLocked(u, now)
                    /\ u.is_active
                    /\ last.pw = "wrong") => generic
                /\ last.err = "account_locked"
                     <=> (u.auth_provider = "local" /\ IsLocked(u, now))
                /\ last.err = "account_disabled"
                     <=> (u.auth_provider = "local" /\ ~IsLocked(u, now) /\ ~u.is_active)
           /\ last.err \in {"account_locked", "account_disabled"} => last.pre # {}

C29_Witness ==
    /\ last.op = "authenticate"
    /\ last.pw = "wrong"
    /\ last.msg = "Invalid username/email or password"
    /\ \E u \in last.pre : u.auth_provider = "local" /\ u.is_active /\ ~IsLocked(u, now)
    /\ \E id \in last.uid : IsLocked(users[id], now)

\* C22: in every reachable state, also while create_api_key calls for one
\* user run concurrently, the number of a user's active API keys is at most
\* max_per_user.
C22_ActiveKeysAtMostMaxPerUser ==
    \A uid \in UserIds : Cardinality(UserApiKeys(api_keys, uid)) <= MaxPerUser

\* C23: create_api_key for a user who already has max_per_user active keys
\* fails, returning no record and no secret, and leaves every existing key
\* unchanged and active: no key is evicted.
C23_RefusedAtLimitNoEviction ==
    [][(/\ last'.op = "create_api_key"
        /\ \E uid \in last'.uid \cap UserIds :
              Cardinality({i \in DOMAIN api_keys :
                             api_keys[i].user_id = uid /\ api_keys[i].is_active})
                 >= MaxPerUser)
          => (~last'.ok /\ last'.tok = {} /\ last'.sid = {} /\ api_keys' = api_keys)]_vars

C23_Witness ==
    /\ last.op = "create_api_key"
    /\ ~last.ok
    /\ \E uid \in last.uid \cap UserIds :
          /\ Cardinality(UserApiKeys(api_keys, uid)) = MaxPerUser
          /\ \E i \in DOMAIN api_keys : api_keys[i].user_id = uid /\ ~api_keys[i].is_active

\* C24: when recording the last-used timestamp fails during
\* validate_api_key for an otherwise valid key, the call still returns a
\* successful result.
C24_UsageFailureTolerated ==
    (/\ last.op = "validate_api_key"
     /\ last.fault = "raises"
     /\ \E key \in last.tok :
           /\ key.prefix = "fb_"
           /\ \E i \in DOMAIN api_keys :
                 /\ api_keys[i].key_hash = <<"sha256", key>>
                 /\ ApiKeyIsValid(api_keys[i], now)
                 /\ users[api_keys[i].user_id].is_active)
      => last.ok


\* C21: a request authenticated by an API key reaches the handler of a
\* permission_required(P) route only if every permission of P is in the
\* key's stored permission list, whatever the owner's admin flag and own
\* permissions are.
C21_KeyScopedPermissions ==
    (last.op = "permission_required" /\ last.via = "api_key" /\ last.ok)
        => \A i \in last.sid : last.need \subseteq api_keys[i].permissions

\* A key holding only 'read', owned by an admin, authenticated and then
\* refused on a route that requires 'write'.
C21_Witness ==
    /\ last.op = "permission_required"
    /\ last.via = "api_key"
    /\ last.auth = "ok"
    /\ "write" \in last.need
    /\ last.status = 403
    /\ ~last.ok
    /\ \E i \in last.sid :
          /\ api_keys[i].permissions = {"read"}
          /\ users[api_keys[i].user_id].is_admin
          /\ "write" \in GetPermissions(users[api_keys[i].user_id])

\* C27: under auth_required, admin_required and permission_required the
\* handler runs and the identity is set only after authenticate_request
\* succeeded and the admin flag, respectively every required permission, was
\* found; a missing or failed credential is answered 401 and a missing admin
\* flag or permission 403, the handler not run and no identity set.
C27_HandlerOnlyAfterChecks ==
    LET held == IF last.via = "api_key"
                THEN UNION {api_keys[i].permissions : i \in last.sid}
                ELSE UNION {GetPermissions(users[id]) : id \in last.who}
    IN
    last.op \in Decorators =>
        /\ (last.uid # {} => last.ok)
        /\ last.ok =>
              /\ last.auth = "ok"
              /\ last.uid = last.who /\ last.who # {}
              /\ last.op = "admin_required" => \A id \in last.who : users[id].is_admin
              /\ last.op = "permission_required" =>
                     last.need \subseteq held
        /\ last.auth # "ok" => (last.status = 401 /\ ~last.ok)
        /\ (last.auth = "ok" /\ ~last.ok) =>
              /\ last.status = 403
              /\ \/ last.op = "admin_required" /\ \E id \in last.who : ~users[id].is_admin
                 \/ /\ last.op = "permission_required"
                    /\ ~(last.need \subseteq held)

\* An admin's key opens an admin_required route.
C27_Witness ==
    /\ last.op = "admin_required"
    /\ last.ok
    /\ last.status = 200
    /\ last.via = "api_key"
    /\ \E id \in last.uid : users[id].is_admin

\* C28: authenticate_request uses the bearer token whenever the request has
\* an 'Authorization: Bearer' header and then never an API key; without one
\* it takes the key of 'Authorization: Api-Key', else of X-API-Key, else of
\* the api_key parameter, and returns no result when none is present.
C28_BearerFirstThenKeySources ==
    last.op \in Decorators =>
        \A r \in last.req :
            LET bearer == {h \in r.authorization : h.scheme = "Bearer"}
                apikey == {h \in r.authorization : h.scheme = "Api-Key"}
            IN  IF bearer # {}
                THEN last.via = "bearer" /\ last.tok = UNION {h.cred : h \in bearer}
                ELSE IF apikey # {}
                THEN last.via = "api_key" /\ last.tok = UNION {h.cred : h \in apikey}
                ELSE IF r.x_api_key # {}
                THEN last.via = "api_key" /\ last.tok = r.x_api_key
                ELSE IF r.api_key # {}
                THEN last.via = "api_key" /\ last.tok = r.api_key
                ELSE last.via = "none" /\ last.auth = "none"


\* C25: a session or an API key whose is_active flag is false never has it
\* true again, whatever calls of validate, extend, refresh, update, revoke
\* and cleanup follow or interleave.
C25_InactiveStaysInactive ==
    [][/\ \A i \in DOMAIN sessions :
             ~sessions[i].is_active => (i \in DOMAIN sessions' /\ ~sessions'[i].is_active)
       /\ \A i \in DOMAIN api_keys :
             ~api_keys[i].is_active => (i \in DOMAIN api_keys' /\ ~api_keys'[i].is_active)]_vars

\* A revoked key whose update, begun while it was active, has been written.
C25_Witness ==
    /\ last.op = "update_api_key"
    /\ last.ok
    /\ \E i \in last.sid :
          /\ ~api_keys[i].is_active
          /\ api_keys[i].permissions = {"admin"}

\* C26: cleanup_expired_sessions and cleanup_expired_keys deactivate exactly
\* the active rows whose expiry is in the past and return their number,
\* change is_valid for no row, and a second run at the same instant
\* deactivates nothing and returns 0.
C26_CleanupExactAndIdempotent ==
    [][/\ last'.op = "cleanup_expired_sessions" =>
             /\ DOMAIN sessions' = DOMAIN sessions
             /\ \A i \in DOMAIN sessions :
                   /\ sessions'[i] =
                         IF sessions[i].is_active /\ SessionIsExpired(sessions[i], now)
                         THEN [sessions[i] EXCEPT !.is_active = FALSE] ELSE sessions[i]
                   /\ SessionIsValid(sessions'[i], now) = SessionIsValid(sessions[i], now)
             /\ last'.status =
                   Cardinality({i \in DOMAIN sessions :
                                  sessions[i].is_active /\ SessionIsExpired(sessions[i], now)})
             /\ last.op = "cleanup_expired_sessions" =>
                   (last'.status = 0 /\ sessions' = sessions)
       /\ last'.op = "cleanup_expired_keys" =>
             /\ DOMAIN api_keys' = DOMAIN api_keys
             /\ \A i \in DOMAIN api_keys :
                   /\ api_keys'[i] =
                         IF api_keys[i].is_active /\ ApiKeyIsExpired(api_keys[i], now)
                         THEN [api_keys[i] EXCEPT !.is_active = FALSE] ELSE api_keys[i]
                   /\ ApiKeyIsValid(api_keys'[i], now) = ApiKeyIsValid(api_keys[i], now)
             /\ last'.status =
                   Cardinality({i \in DOMAIN api_keys :
                                  api_keys[i].is_active /\ ApiKeyIsExpired(api_keys[i], now)})
             /\ last.op = "cleanup_expired_keys" =>
                   (last'.status = 0 /\ api_keys' = api_keys)]_vars

\* A sweep that deactivated an expired key and left alone one that expires
\* at this very instant or never.
C26_Witness ==
    /\ last.op = "cleanup_expired_keys"
    /\ last.status = 1
    /\ \E i \in DOMAIN api_keys :
          ~api_keys[i].is_active /\ \E e \in api_keys[i].expires_at : e < now
    /\ \E i \in DOMAIN api_keys :
          api_keys[i].is_active /\ \A e \in api_keys[i].expires_at : e = now


\* C30: register_user with a well-formed email, compared without regard to
\* case, or a username that a user already has, one created by a concurrent
\* registration included, is answered with the 'already exists' conflict,
\* HTTP 409, and no user is created.
C30_DuplicateRegistrationIs409 ==
    [][(/\ last'.op = "register_user"
        /\ \E r \in last'.req, id \in DOMAIN users :
              /\ HasAt(r[2])
              /\ \/ users[id].email = Lower(r[2])
                 \/ users[id].username = {r[1]})
          => (/\ ~last'.ok
              /\ last'.status = 409
              /\ last'.msg = "User with this email or username already exists"
              /\ users' = users)]_vars


\* C32: get_permissions is exactly {read, write} for a user who is no admin
\* and exactly {read, write, admin, user_management} for an admin, whatever
\* the other fields of the user hold.
C32_PermissionsFromAdminFlagOnly ==
    \A id \in DOMAIN users :
        LET u == users[id]
        IN  /\ ~u.is_admin => GetPermissions(u) = {"read", "write"}
            /\ u.is_admin =>
                  GetPermissions(u) = {"read", "write", "admin", "user_management"}
            /\ \A active \in BOOLEAN, provider \in {"local", "azure_ad"},
                  failed \in {0, MaxLoginAttempts}, locked \in {{}, {now + 1}} :
                  GetPermissions([u EXCEPT !.is_active = active,
                                           !.auth_provider = provider,
                                           !.failed_login_count = failed,
                                           !.locked_until = locked])
                     = GetPermissions(u)

\* An admin got a key with 'admin' while a disabled user who is no admin
\* was refused one.
C32_Witness ==
    /\ last.op = "create_api_key"
    /\ ~last.ok
    /\ \E uid \in last.uid \cap UserIds : ~users[uid].is_admin /\ ~users[uid].is_active
    /\ \E i \in DOMAIN api_keys :
          /\ api_keys[i].permissions = {"admin"}
          /\ users[api_keys[i].user_id].is_admin


C34_RateLimitedLoginTouchesNothing ==
    [][(/\ last'.op = "login"
        /\ last'.pw # "missing"
        /\ \E ip \in ClientIps :
              LET q == Bucket(requests, RateLimitKey(ip))
              IN  Cardinality({i \in DOMAIN q : q[i] >= now - AuthRateWindow})
                     >= AuthRateLimit)
          => (/\ last'.status = 429
              /\ ~last'.ok
              /\ users' = users
              /\ sessions' = sessions
              /\ issued' = issued)]_vars

\* The right password of a known user, refused with 429.
C34_Witness ==
    /\ last.op = "login"
    /\ last.status = 429
    /\ last.pw = "correct"
    /\ \E id \in last.uid : users[id].last_login_at = {} /\ users[id].is_active
    /\ sessions = << >>

\* C35: in every state reached through authenticate, unlock_account and
\* complete_password_reset with the fixed threshold MaxLoginAttempts, a user
\* row whose locked_until is set has failed_login_count >= MaxLoginAttempts,
\* whether the lock is still running or has already run out.
C35_LockedOnlyAtThreshold ==
    \A id \in UserIds :
        users[id].locked_until # {}
            => users[id].failed_login_count >= MaxLoginAttempts

\* A lock that has run out is still stored on the row, next to a counter at
\* the threshold.
C35_Witness ==
    /\ last = NoCall
    /\ ticks > 0
    /\ \E id \in UserIds :
          /\ users[id].locked_until # {}
          /\ ~IsLocked(users[id], now)
          /\ users[id].failed_login_count = MaxLoginAttempts

\* C36: time passing leaves failed_login_count alone; a wrong password for
\* a local active account whose lock has run out finds the counter at the
\* threshold or above, raises it by one and locks the account again in the
\* same call; and the counter of an account goes back to 0 only in a
\* successful authenticate, an unlock_account or a successful
\* complete_password_reset of that account.
C36_CounterSurvivesLockExpiry ==
    [][ /\ now' # now =>
              \A id \in UserIds :
                  users'[id].failed_login_count = users[id].failed_login_count
        /\ \A id \in UserIds :
              /\ ( /\ last'.op = "authenticate"
                   /\ last'.uid = {id}
                   /\ last'.pw = "wrong"
                   /\ users[id].auth_provider = "local"
                   /\ users[id].is_active
                   /\ users[id].locked_until # {}
                   /\ ~IsLocked(users[id], now) )
                  => /\ users[id].failed_login_count >= MaxLoginAttempts
                     /\ users'[id].failed_login_count
                            = users[id].failed_login_count + 1
                     /\ IsLocked(users'[id], now')
                     /\ last'.err = "invalid_credentials"
              /\ ( /\ users[id].failed_login_count > 0
                   /\ users'[id].failed_login_count = 0 )
                  => /\ last'.uid = {id}
                     /\ last'.ok
                     /\ last'.op \in {"authenticate", "unlock_account",
                                      "complete_password_reset"}
      ]_vars

\* The wrong password right after the lock ran out: the counter passes the
\* threshold and the account is locked again.
C36_Witness ==
    /\ last.op = "authenticate"
    /\ last.pw = "wrong"
    /\ \E id \in last.uid :
          /\ \E u \in last.pre : u.locked_until # {} /\ ~IsLocked(u, now)
          /\ users[id].failed_login_count = MaxLoginAttempts + 1
          /\ IsLocked(users[id], now)

\* C37: a request to an admin_required route whose credential validated
\* reaches the handler exactly when the owning user's is_admin flag is set,
\* whatever permissions an API key carries, and is answered 403
\* admin_required otherwise.
C37_AdminByOwnerFlagOnly ==
    (last.op = "admin_required" /\ last.auth = "ok") =>
        \A id \in last.who :
            /\ users[id].is_admin => last.status = 200 /\ last.uid = {id}
            /\ ~users[id].is_admin =>
                   last.status = 403 /\ last.err = "admin_required" /\ last.uid = {}

\* An administrator's key that carries read only opens an admin route.
C37_Witness ==
    /\ last.op = "admin_required"
    /\ last.via = "api_key"
    /\ last.status = 200
    /\ \E i \in last.sid :
          /\ ApiKeyGetPermissions(api_keys[i]) = {"read"}
          /\ users[api_keys[i].user_id].is_admin

\* C38: a create_api_key or update_api_key call with a non-empty permission
\* list stores that list exactly when every entry is in the enumeration and
\* in the owner's get_permissions, and otherwise fails and leaves every
\* stored permission list as it was; so every stored list lies inside the
\* owner's permissions and the key of a user who is not an administrator
\* carries neither admin nor user_management.
C38_OnlyGrantablePermissionsStored ==
    [][ LET Grantable(uid) == AvailablePermissions \cap GetPermissions(users[uid])
        IN
        /\ \A i \in DOMAIN api_keys' :
              /\ api_keys'[i].permissions \subseteq Grantable(api_keys'[i].user_id)
              /\ ~users[api_keys'[i].user_id].is_admin =>
                     api_keys'[i].permissions \cap {"admin", "user_management"} = {}
        /\ ( /\ last'.op \in {"create_api_key", "update_api_key"}
             /\ last'.need # {}
             /\ \E uid \in last'.uid : ~(last'.need \subseteq Grantable(uid)) )
            => ~last'.ok /\ api_keys' = api_keys
        /\ ( /\ last'.op \in {"create_api_key", "update_api_key"}
             /\ last'.ok
             /\ last'.need # {} )
            => \A i \in last'.sid : api_keys'[i].permissions = last'.need
        /\ \A i \in DOMAIN api_keys :
              api_keys'[i].permissions # api_keys[i].permissions
                  => last'.op = "update_api_key" /\ last'.ok /\ i \in last'.sid
      ]_vars

\* A user who is not an administrator asked for admin on an existing key
\* and was refused; the key still carries what it carried.
C38_Witness ==
    /\ last.op = "update_api_key"
    /\ ~last.ok
    /\ last.err = "false"
    /\ "admin" \in last.need
    /\ \E i \in last.sid :
          /\ ~users[api_keys[i].user_id].is_admin
          /\ api_keys[i].permissions = {"read", "write"}

C31_FaultsReturnedAsUnknown ==
    last.op \in {"authenticate", "validate_api_key", "change_password"} =>
        /\ last.err # "raised"
        /\ last.fault \in {"read", "write", "raises"} => last.err = "unknown_error"

====
